---- MODULE Spec2Model ----
(***************************************************************************)
(* Image-Service: the /transform request pipeline (rate limiter -> Auth -> *)
(* Handler.Transform -> detached cache Set), the Auth allow-list predicate *)
(* and the cache-key derivation, as state machines.                        *)
(*                                                                         *)
(* Byte strings that the code inspects byte by byte (hosts, payloads) are  *)
(* sequences of one-character strings; strings that the code only copies   *)
(* or concatenates (the raw url parameter, fit, format, ...) are strings.  *)
(***************************************************************************)
EXTENDS Integers, Sequences, FiniteSets, TLC

VARIABLES
    reqs,      \* request id -> the request's position, inputs and response
    cache,     \* the key-value store: key -> entry, or NoEntry
    tasks,     \* detached cache-Set goroutines that have not run yet
    buckets,   \* rate limiter: client key -> bucket, or NoBucket
    now,       \* clock, in refill ticks (one token is refilled per tick)
    auth,      \* SpecAuth: one Auth invocation (allow-list, url, outcome)
    keyt,      \* SpecKey: one pair of generateCacheKey invocations
    lim,       \* SpecLimit: the rate limiter's decisions so far
    proc,      \* SpecProc: one Processor.Transform invocation
    sniff,     \* SpecSvg: one isSVG invocation
    engine     \* SpecMain: the server process and the image engine

vars == <<reqs, cache, tasks, buckets, now, auth, keyt, lim, proc, sniff,
          engine>>

\* The variables of the specifications of single components.
others == <<lim, proc, sniff, engine>>

----------------------------------------------------------------------------
(* Bounds of the model *)

NumReq == 2          \* requests handled in one behaviour
MaxTime == 1         \* clock ticks in one behaviour
RateLimitCfg == 1    \* cfg.RateLimit of the modelled deployment (tokens)
MaxImageSizeCfg == 6 \* cfg.MaxImageSize of the modelled deployment (bytes)
MaxListLen == 2      \* SpecAuth: longest allow-list tried

----------------------------------------------------------------------------
(* Byte-level string helpers (package strings) *)

\* strings.HasSuffix(s, suffix)
HasSuffix(s, suffix) ==
    /\ Len(s) >= Len(suffix)
    /\ SubSeq(s, Len(s) - Len(suffix) + 1, Len(s)) = suffix

\* strings.Contains(s, substr)
Contains(s, substr) ==
    \E i \in 1..(Len(s) - Len(substr) + 1) :
        SubSeq(s, i, i + Len(substr) - 1) = substr

\* Hosts, byte by byte.
H_example == <<"e","x","a","m","p","l","e",".","c","o","m">>
H_img     == <<"i","m","g",".">> \o H_example
H_evil    == <<"e","v","i","l">> \o H_example
H_other   == <<"o","t","h","e","r",".","o","r","g">>
H_none    == << >>

\* Allow-list entries, byte by byte.
E_star  == <<"*">>
E_empty == << >>

----------------------------------------------------------------------------
(* net/url on the url parameters of the model.  The library is outside the *)
(* repository; it is modelled by its results on the strings below.         *)

U_missing   == ""
U_ok        == "http://example.com/a.png"
U_img       == "http://img.example.com/a.png"
U_evil      == "http://evilexample.com/a.png"
U_other     == "http://other.org/a.png"
U_noscheme  == ":foo"                        \* Parse: missing protocol scheme
U_badesc    == "http://example.com/%zz"      \* QueryUnescape and Parse fail
U_pctscheme == "%68ttp://example.com/a.png"  \* only the decoded form parses
U_pctpath   == "http://example.com/%25zz"    \* only the raw form parses
\* "example.com%2F" is the userinfo of the raw form and the host is
\* other.org; the decoded form is U_atpath, whose host is example.com.
U_userinfo  == "http://example.com%2F@other.org/a.png"
U_atpath    == "http://example.com/@other.org/a.png"
U_relative  == "/a.png"                      \* parses, with an empty host

URLS == {U_missing, U_ok, U_img, U_evil, U_other, U_noscheme, U_badesc,
         U_pctscheme, U_pctpath, U_userinfo, U_atpath, U_relative}

\* url.QueryUnescape(s): [err, out]
QueryUnescape(s) ==
    CASE s = U_badesc    -> [err |-> TRUE,  out |-> ""]
      [] s = U_pctscheme -> [err |-> FALSE, out |-> U_ok]
      [] s = U_pctpath   -> [err |-> FALSE, out |-> U_badesc]
      [] s = U_userinfo  -> [err |-> FALSE, out |-> U_atpath]
      [] OTHER           -> [err |-> FALSE, out |-> s]

\* url.Parse(s): [err, host]
UrlParse(s) ==
    CASE s = U_ok        -> [err |-> FALSE, host |-> H_example]
      [] s = U_img       -> [err |-> FALSE, host |-> H_img]
      [] s = U_evil      -> [err |-> FALSE, host |-> H_evil]
      [] s = U_other     -> [err |-> FALSE, host |-> H_other]
      [] s = U_pctpath   -> [err |-> FALSE, host |-> H_example]
      [] s = U_userinfo  -> [err |-> FALSE, host |-> H_other]
      [] s = U_atpath    -> [err |-> FALSE, host |-> H_example]
      [] s = U_relative  -> [err |-> FALSE, host |-> H_none]
      [] s = U_missing   -> [err |-> FALSE, host |-> H_none]
      [] OTHER           -> [err |-> TRUE,  host |-> H_none]

----------------------------------------------------------------------------
(* middleware.Auth *)

StatusOK == 200
StatusBadRequest == 400
StatusForbidden == 403
StatusRequestEntityTooLarge == 413
StatusTooManyRequests == 429
StatusInternalServerError == 500
StatusBadGateway == 502

\* The URL whose host Auth evaluates: [err, host].
AuthParsedURL(imageURL) ==
    LET un == QueryUnescape(imageURL)
        decodedURL == IF un.err THEN imageURL ELSE un.out
        p1 == UrlParse(decodedURL)
    IN  IF p1.err THEN UrlParse(imageURL) ELSE p1

\* The iteration without the test domain != "" of line 45.
DomainMatchesEmpty(host, domain) ==
    \/ domain = E_star
    \/ HasSuffix(host, domain) \/ host = domain

\* One iteration of the allow-list loop: does this entry set allowed = true?
DomainMatches(host, domain) ==
    \/ domain = E_star
    \/ /\ domain # E_empty
       /\ (HasSuffix(host, domain) \/ host = domain)

\* The allow-list loop: allowed after the loop.
Allowed(host, allowedDomains) ==
    \E i \in 1..Len(allowedDomains) : DomainMatches(host, allowedDomains[i])

\* The middleware: the status it answers itself, or 0 when it calls next.
Auth(allowedDomains, imageURL) ==
    IF imageURL = ""
    THEN StatusBadRequest
    ELSE LET parsedURL == AuthParsedURL(imageURL)
         IN  IF parsedURL.err
             THEN StatusBadRequest
             ELSE IF ~Allowed(parsedURL.host, allowedDomains)
                  THEN StatusForbidden
                  ELSE 0

----------------------------------------------------------------------------
(* Handler.generateCacheKey *)

\* float64 values are held in thousandths (1004 is 1.004).  FloatVals holds no
\* value whose third decimal is 5: how fmt rounds such a value depends on
\* its binary representation.
FloatVals == {-1004, -1, 0, 1, 4, 6, 1000, 1001, 1004, 1006, 1500}

Abs(n) == IF n < 0 THEN -n ELSE n

\* The value in hundredths that "%.2f" prints (round to nearest).
Round2(m) == (Abs(m) + 5) \div 10

\* fmt "%.2f": sign, integer part, ".", two decimals.  A negative value
\* keeps its sign when it rounds to zero ("-0.00").
FmtFloat2(m) ==
    LET h == Round2(m)
        frac == h % 100
    IN  (IF m < 0 THEN "-" ELSE "") \o ToString(h \div 100) \o "." \o
        (IF frac < 10 THEN "0" ELSE "") \o ToString(frac)

\* fmt "%t"
FmtBool(b) == IF b THEN "true" ELSE "false"

\* fmt "%d"
FmtInt(n) == ToString(n)

\* Serialize with the last field (strip) left out of the template.
SerializeNoStrip(t) ==
    t.url \o ":" \o FmtInt(t.w) \o ":" \o FmtInt(t.h) \o ":" \o t.fit \o ":" \o
    t.format \o ":" \o FmtInt(t.quality) \o ":" \o t.crop \o ":" \o
    FmtInt(t.blur) \o ":" \o FmtFloat2(t.sharpen) \o ":" \o
    FmtFloat2(t.brightness) \o ":" \o FmtFloat2(t.contrast) \o ":" \o
    FmtFloat2(t.saturation) \o ":" \o FmtBool(t.autoOptim) \o ":" \o
    FmtBool(t.grayscale) \o ":" \o t.flip \o ":" \o FmtInt(t.rotate) \o ":" \o
    t.bg

\* The fmt.Sprintf of generateCacheKey: all eighteen fields, in the fixed
\* order, ":"-separated.
Serialize(t) ==
    t.url \o ":" \o FmtInt(t.w) \o ":" \o FmtInt(t.h) \o ":" \o t.fit \o ":" \o
    t.format \o ":" \o FmtInt(t.quality) \o ":" \o t.crop \o ":" \o
    FmtInt(t.blur) \o ":" \o FmtFloat2(t.sharpen) \o ":" \o
    FmtFloat2(t.brightness) \o ":" \o FmtFloat2(t.contrast) \o ":" \o
    FmtFloat2(t.saturation) \o ":" \o FmtBool(t.autoOptim) \o ":" \o
    FmtBool(t.grayscale) \o ":" \o t.flip \o ":" \o FmtInt(t.rotate) \o ":" \o
    t.bg \o ":" \o FmtBool(t.strip)

\* md5.Sum + hex.EncodeToString.  The digest is outside the repository; it
\* is modelled as collision-free on the serializations of the model.
Md5Hex(data) == "md5(" \o data \o ")"

generateCacheKey(t) == Md5Hex(Serialize(t))

----------------------------------------------------------------------------
(* Handler.Transform: query parsing *)

\* The query parameters of a request, after strconv: an absent or malformed
\* number is 0, an absent string is "".
BaseQuery ==
    [url |-> U_ok, w |-> 100, h |-> 100, fit |-> "", f |-> "", q |-> 0,
     crop |-> "", blur |-> 0, sharpen |-> 0, brightness |-> 0, contrast |-> 0,
     saturation |-> 0, auto |-> "", grayscale |-> "", bw |-> "", flip |-> "",
     rotate |-> 0, bg |-> "", strip |-> ""]

\* Lines 37-72: the parameters with their defaults applied.
ParseQuery(q) ==
    [url        |-> q.url,
     w          |-> q.w,
     h          |-> q.h,
     fit        |-> IF q.fit = "" THEN "cover" ELSE q.fit,
     format     |-> IF q.f = "" THEN "jpeg" ELSE q.f,
     quality    |-> IF q.q <= 0 \/ q.q > 100 THEN 80 ELSE q.q,
     crop       |-> q.crop,
     blur       |-> q.blur,
     sharpen    |-> q.sharpen,
     brightness |-> q.brightness,
     contrast   |-> IF q.contrast = 0 THEN 1000 ELSE q.contrast,
     saturation |-> IF q.saturation = 0 THEN 1000 ELSE q.saturation,
     autoOptim  |-> q.auto = "true" \/ q.auto = "1",
     grayscale  |-> q.grayscale = "true" \/ q.bw = "true",
     flip       |-> q.flip,
     rotate     |-> q.rotate,
     bg         |-> q.bg,
     strip      |-> q.strip # "false"]

\* Lines 121-139: processor.TransformOptions built from the parameters.
TransformOptions(t) ==
    [Width |-> t.w, Height |-> t.h, Fit |-> t.fit, Format |-> t.format,
     Quality |-> t.quality, Crop |-> t.crop, Blur |-> t.blur,
     Sharpen |-> t.sharpen, Brightness |-> t.brightness,
     Contrast |-> t.contrast, Saturation |-> t.saturation,
     AutoOptim |-> t.autoOptim, Grayscale |-> t.grayscale, Flip |-> t.flip,
     Rotate |-> t.rotate, Background |-> t.bg, Strip |-> t.strip]

\* Handler.getContentType
getContentType(format) ==
    CASE format = "webp" -> "image/webp"
      [] format = "avif" -> "image/avif"
      [] format = "png"  -> "image/png"
      [] format = "svg"  -> "image/svg+xml"
      [] OTHER           -> "image/jpeg"

----------------------------------------------------------------------------
(* Handler.isSVG *)

UpperBytes == <<"A","B","C","D","E","F","G","H","I","J","K","L","M",
                "N","O","P","Q","R","S","T","U","V","W","X","Y","Z">>
LowerBytes == <<"a","b","c","d","e","f","g","h","i","j","k","l","m",
                "n","o","p","q","r","s","t","u","v","w","x","y","z">>

\* strings.ToLower on one byte
ToLowerByte(c) ==
    IF \E i \in 1..26 : UpperBytes[i] = c
    THEN LowerBytes[CHOOSE i \in 1..26 : UpperBytes[i] = c]
    ELSE c

\* strings.ToLower
ToLower(s) == [i \in 1..Len(s) |-> ToLowerByte(s[i])]

M_svg     == <<"<","s","v","g">>
M_doctype == <<"<","!","d","o","c","t","y","p","e"," ","s","v","g">>
M_xml     == <<"<","?","x","m","l">>
M_svgname == <<"s","v","g">>

MinSvgLen == 5
SvgCheckLength == 500

Min(a, b) == IF a < b THEN a ELSE b

\* isSVG scanning the whole payload instead of its first 500 bytes.
isSVGWholePayload(data) ==
    IF Len(data) < MinSvgLen
    THEN FALSE
    ELSE LET prefix == ToLower(data)
         IN  \/ Contains(prefix, M_svg)
             \/ Contains(prefix, M_doctype)
             \/ (Contains(prefix, M_xml) /\ Contains(prefix, M_svgname))

\* isSVG without the test for the opening tag.
isSVGNoTagTest(data) ==
    IF Len(data) < MinSvgLen
    THEN FALSE
    ELSE LET checkLength == Min(SvgCheckLength, Len(data))
             prefix == ToLower(SubSeq(data, 1, checkLength))
         IN  \/ Contains(prefix, M_doctype)
             \/ (Contains(prefix, M_xml) /\ Contains(prefix, M_svgname))

isSVG(data) ==
    IF Len(data) < MinSvgLen
    THEN FALSE
    ELSE LET checkLength == Min(SvgCheckLength, Len(data))
             prefix == ToLower(SubSeq(data, 1, checkLength))
         IN  \/ Contains(prefix, M_svg)
             \/ Contains(prefix, M_doctype)
             \/ (Contains(prefix, M_xml) /\ Contains(prefix, M_svgname))

----------------------------------------------------------------------------
(* Handler.downloadImage *)

\* Upstream bodies: a vector payload, raster payloads of exactly the
\* configured maximum and of one byte more, and a vector payload longer
\* than the read cap.
Pad(p, n) == p \o [i \in 1..(n - Len(p)) |-> "x"]

P_raster == <<"P","N","G">>
P_vector == <<"<","s","v","g",">">>

Bodies ==
    {P_vector, Pad(P_raster, MaxImageSizeCfg),
     Pad(P_raster, MaxImageSizeCfg + 1), Pad(P_vector, MaxImageSizeCfg + 3)}

\* What the source answers to one GET: the connection fails ("neterr"), a
\* non-200 status ("status"), the body breaks off while it is read
\* ("readerr"), or a 200 with a body; declared is its Content-Length
\* header (-1: none).
Upstreams ==
    {[kind |-> k, body |-> << >>, declared |-> -1] :
        k \in {"neterr", "status", "readerr"}}
    \cup {[kind |-> "ok", body |-> b, declared |-> -1] : b \in Bodies}
    \cup {[kind |-> "ok", body |-> b, declared |-> Len(b)] : b \in Bodies}


\* io.LimitReader with one byte less than line 207 allows.
ReadLimitNoSlack == MaxImageSizeCfg

\* The cap of io.LimitReader, line 207.
ReadLimit == MaxImageSizeCfg + 1

\* downloadImage with a second client.Do after a failed one.
downloadImageRetry(imageURL, up) ==
    IF UrlParse(imageURL).err
    THEN [err |-> TRUE, sent |-> FALSE, gets |-> 0, host |-> H_none,
          data |-> << >>]
    ELSE IF up.kind # "ok"
         THEN [err |-> TRUE, sent |-> TRUE, gets |-> 2,
               host |-> UrlParse(imageURL).host, data |-> << >>]
         ELSE [err |-> FALSE, sent |-> TRUE, gets |-> 1,
               host |-> UrlParse(imageURL).host,
               data |-> SubSeq(up.body, 1, Min(Len(up.body), ReadLimit))]

\* [err, sent, gets, host, data]: sent tells whether an outbound GET was
\* issued, gets counts the calls of client.Do (line 197), host is the host
\* of the URL the GET goes to (http.NewRequest("GET", imageURL), line 165).
downloadImage(imageURL, up) ==
    IF UrlParse(imageURL).err
    THEN [err |-> TRUE, sent |-> FALSE, gets |-> 0, host |-> H_none,
          data |-> << >>]
    ELSE IF up.kind # "ok"
         THEN [err |-> TRUE, sent |-> TRUE, gets |-> 1,
               host |-> UrlParse(imageURL).host, data |-> << >>]
         ELSE [err |-> FALSE, sent |-> TRUE, gets |-> 1,
               host |-> UrlParse(imageURL).host,
               data |-> SubSeq(up.body, 1, Min(Len(up.body), ReadLimit))]

\* The handler without the size check of line 100.
TooLargeUnchecked(imageData) == FALSE

\* The size check of line 100.
TooLarge(imageData) == Len(imageData) > MaxImageSizeCfg

----------------------------------------------------------------------------
(* Processor.Transform.  The image engine is outside the repository: each  *)
(* of its calls fails or not, and its output is a function of the source   *)
(* bytes and the options.                                                  *)

\* The encoder the export switch selects, lines 205-238.
ExportFormat(format) ==
    CASE format = "webp" -> "webp"
      [] format = "avif" -> "avif"
      [] format = "png"  -> "png"
      [] OTHER           -> "jpeg"

\* fmt.Sscanf(opts.Crop, "%d,%d,%d,%d", ...) succeeds, line 108: on the crop
\* strings of the model, those that begin with four comma-separated
\* integers.
SscanfCrop(crop) == crop \in {"0,0,10,10", "1,2,3,4", "1,2,3,4px"}

\* One call of the engine: the stage of Transform it belongs to, the
\* method and its arguments.
Op(stage, method, arg) == [stage |-> stage, op |-> method, arg |-> arg]

\* Lines 56-64
Angle(rotate) ==
    CASE rotate = 90  -> "Angle90"
      [] rotate = 180 -> "Angle180"
      [] rotate = 270 -> "Angle270"
      [] OTHER        -> "Angle0"

\* Lines 93-98
Interest(fit) ==
    CASE fit = "cover"     -> "InterestingCentre"
      [] fit = "attention" -> "InterestingAttention"
      [] OTHER             -> "InterestingNone"

\* Lines 72-88
FlipOps(flip) ==
    CASE flip = "h"    -> <<Op("flip", "Flip", "DirectionHorizontal")>>
      [] flip = "v"    -> <<Op("flip", "Flip", "DirectionVertical")>>
      [] flip = "both" -> <<Op("flip", "Flip", "DirectionHorizontal"),
                            Op("flip", "Flip", "DirectionVertical")>>
      [] OTHER         -> << >>

\* Lines 191-238: the export call with its parameters.
ExportOp(opts) ==
    LET quality == IF opts.Quality <= 0 THEN 80 ELSE opts.Quality
        fmt == ExportFormat(opts.Format)
        params == "quality=" \o ToString(quality) \o ",strip=" \o
                  ToString(opts.Strip) \o
                  (IF fmt = "webp"
                   THEN ",lossless=" \o ToString(quality = 100)
                   ELSE "")
    IN  Op("encode",
           CASE fmt = "webp" -> "ExportWebp"
             [] fmt = "avif" -> "ExportAvif"
             [] fmt = "png"  -> "ExportPng"
             [] OTHER        -> "ExportJpeg",
           params)

When(cond, ops) == IF cond THEN ops ELSE << >>

\* Lines 91-237: the engine calls from the resize to the export.
LaterOps(opts) ==
    When(opts.Width > 0 \/ opts.Height > 0,
         <<Op("resize", "Thumbnail", Interest(opts.Fit))>>)
    \o When(opts.Crop # "" /\ SscanfCrop(opts.Crop),
            <<Op("crop", "ExtractArea", opts.Crop)>>)
    \o When(opts.AutoOptim, <<Op("auto-sharpen", "Sharpen", "1200")>>)
    \o When(opts.Sharpen > 0,
            <<Op("sharpen", "Sharpen", ToString(opts.Sharpen))>>)
    \o When(opts.Blur > 0, <<Op("blur", "GaussianBlur", ToString(opts.Blur))>>)
    \o When(opts.Grayscale,
            <<Op("grayscale", "ToColorSpace", "InterpretationBW")>>)
    \o When(opts.Brightness # 0,
            <<Op("brightness", "Linear", ToString(opts.Brightness))>>)
    \o When(opts.Contrast # 0 /\ opts.Contrast # 1000,
            <<Op("contrast", "Linear", ToString(opts.Contrast))>>)
    \o When(opts.Saturation # 0 /\ opts.Saturation # 1000,
            <<Op("saturation", "ToColorSpace", "InterpretationLAB"),
              Op("saturation", "Linear", ToString(opts.Saturation)),
              Op("saturation", "ToColorSpace", "originalSpace")>>)
    \o <<ExportOp(opts)>>

\* EngineOps with the flip of lines 70-89 moved before the rotation.
EngineOpsFlipFirst(opts) ==
    <<Op("load", "NewImageFromBuffer", ""),
      Op("auto-orient", "AutoRotate", "")>>
    \o When(opts.Flip # "", FlipOps(opts.Flip))
    \o When(opts.Rotate > 0, <<Op("rotate", "Rotate", Angle(opts.Rotate))>>)
    \o LaterOps(opts)

\* The engine calls of Transform when none of them fails, in the order of
\* lines 43-237.  Floats are in thousandths (1000 is 1.0).
EngineOps(opts) ==
    <<Op("load", "NewImageFromBuffer", ""),
      Op("auto-orient", "AutoRotate", "")>>
    \o When(opts.Rotate > 0, <<Op("rotate", "Rotate", Angle(opts.Rotate))>>)
    \o When(opts.Flip # "", FlipOps(opts.Flip))
    \o LaterOps(opts)

\* Transform going on after a failed engine call (the error is dropped).
TransformRunNoAbort(imageData, opts, failAt) ==
    [err |-> FALSE, ops |-> EngineOps(opts),
     out |-> <<ExportFormat(opts.Format), ToString(opts)>> \o imageData]

\* Transform when the engine call number failAt fails (0: none does): the
\* calls made, and the error or the encoded bytes.  [err, ops, out]
TransformRun(imageData, opts, failAt) ==
    IF failAt > 0
    THEN [err |-> TRUE, ops |-> SubSeq(EngineOps(opts), 1, failAt),
          out |-> << >>]
    ELSE [err |-> FALSE, ops |-> EngineOps(opts),
          out |-> <<ExportFormat(opts.Format), ToString(opts)>> \o imageData]

\* [err, out]
Transform(imageData, opts, failAt) ==
    LET run == TransformRun(imageData, opts, failAt)
    IN  [err |-> run.err, out |-> run.out]

----------------------------------------------------------------------------
(* middleware.RateLimiter: a token bucket per client key.  One tick of the *)
(* clock is the time in which one token is refilled.                       *)

Clients == {"c1"}

NoBucket == [made |-> FALSE, tokens |-> 0, last |-> 0]

\* Check without the refill: the tokens of the bucket are never replenished.
CheckNoRefill(capacity, bkts, client, t) ==
    LET b0 == IF bkts[client].made
              THEN bkts[client]
              ELSE [made |-> TRUE, tokens |-> capacity, last |-> t]
        ok == b0.tokens >= 1
    IN  [allowed |-> ok,
         buckets |-> [bkts EXCEPT ![client] =
                        [made |-> TRUE,
                         tokens |-> IF ok THEN b0.tokens - 1 ELSE b0.tokens,
                         last |-> t]]]

\* RateLimiter.Check for a limiter of the given capacity: the bucket is
\* created full on the client's first request, refilled by the ticks
\* elapsed since the last refill (capped at capacity), and one token is
\* taken if there is one.  [allowed, buckets]
Check(capacity, bkts, client, t) ==
    LET b0 == IF bkts[client].made
              THEN bkts[client]
              ELSE [made |-> TRUE, tokens |-> capacity, last |-> t]
        filled == Min(capacity, b0.tokens + (t - b0.last))
        ok == filled >= 1
    IN  [allowed |-> ok,
         buckets |-> [bkts EXCEPT ![client] =
                        [made |-> TRUE,
                         tokens |-> IF ok THEN filled - 1 ELSE filled,
                         last |-> t]]]

\* The limiter of the deployment: NewRateLimiter(cfg.RateLimit).
LimiterCheck(bkts, client, t) == Check(RateLimitCfg, bkts, client, t)

----------------------------------------------------------------------------
(* cmd/server/main.go: the configuration and the /transform route *)

AllowedDomainsCfg == <<H_example>>
CacheTTLCfg == 86400

\* The route with Auth wrapped around the rate limiter.
ChainAuthFirst == <<"auth", "limit", "transform">>

\* rateLimiter.Limit(Auth(cfg.AllowedDomains)(h.Transform))
Chain == <<"limit", "auth", "transform">>

\* The middlewares from position i on: the status one of them answers (0:
\* the handler is reached), the buckets and the stages passed.
RECURSIVE RunChain(_, _, _, _, _, _)
RunChain(i, client, imageURL, bkts, t, trace) ==
    IF Chain[i] = "limit"
    THEN LET c == LimiterCheck(bkts, client, t)
         IN  IF c.allowed
             THEN RunChain(i + 1, client, imageURL, c.buckets, t,
                           Append(trace, "limit"))
             ELSE [status |-> StatusTooManyRequests, buckets |-> c.buckets,
                   trace |-> Append(trace, "limit")]
    ELSE IF Chain[i] = "auth"
    THEN LET st == Auth(AllowedDomainsCfg, imageURL)
         IN  IF st = 0
             THEN RunChain(i + 1, client, imageURL, bkts, t,
                           Append(trace, "auth"))
             ELSE [status |-> st, buckets |-> bkts,
                   trace |-> Append(trace, "auth")]
    ELSE [status |-> 0, buckets |-> bkts, trace |-> trace]

----------------------------------------------------------------------------
(* The requests of one behaviour *)

Reqs == 1..NumReq

Q(u, f) == [BaseQuery EXCEPT !.url = u, !.f = f]

\* The /transform requests clients send.
Queries ==
    {Q(U_ok, ""), Q(U_ok, "svg"), Q(U_evil, "png"), Q(U_missing, ""),
     Q(U_noscheme, ""), Q(U_pctscheme, ""), Q(U_other, ""),
     Q(U_userinfo, "")}

\* Two requests whose parameters differ and whose cache keys are equal:
\* f=png with crop "90:" and the default quality 80, and f="png:80" with
\* q=90 and no crop.
CollidingQueries ==
    {[BaseQuery EXCEPT !.f = "png", !.crop = "90:"],
     [BaseQuery EXCEPT !.f = "png:80", !.q = 90]}

KeyOf(q) == generateCacheKey(ParseQuery(q))

Keys == {KeyOf(q) : q \in Queries \cup CollidingQueries}

\* A cache slot: the entry stored under a key (present, value, ttl), the
\* request whose Set wrote it (writer), and whether an entry under this key
\* has ever run out of its TTL (lapsed).
NoEntry ==
    [present |-> FALSE, value |-> << >>, ttl |-> 0, writer |-> 0,
     lapsed |-> FALSE]

\* The result of a cache Get: err is "" (a value was read), "redis.Nil" (no
\* entry), "canceled" (the request's context is done) or "backend".
NoGet == [done |-> FALSE, err |-> "", value |-> << >>, writer |-> 0]

\* A request: where it is (pc), what it carries (client, q, cancelled), its
\* response (status, xcache, ctype, cacheControl, body) and its history:
\* the stages it ran (trace), the result of its cache Get (got), the kind
\* of the upstream answer (up), the length of the upstream body (upLen)
\* and the bytes read from it (src), the outbound GETs
\* (fetches) and the host they went to (getHost), engine invocations
\* (engineCalls) and cache Sets (sets) it
\* issued, the outcome of its Set (setres), the requests answered before it
\* arrived (after).
NewReq ==
    [pc |-> "new", client |-> "", q |-> BaseQuery, cancelled |-> FALSE,
     status |-> 0, xcache |-> "", ctype |-> "", cacheControl |-> "",
     body |-> << >>,
     trace |-> << >>, got |-> NoGet, up |-> "none", upLen |-> 0, src |-> << >>,
     fetches |-> 0, getHost |-> H_none, engineCalls |-> 0, sets |-> 0,
     setres |-> "none", after |-> {}]

\* http.Error: the status with a plain-text message, no image bytes.
HttpError(rq, status, stages) ==
    [rq EXCEPT !.pc = "done", !.status = status,
               !.ctype = "text/plain; charset=utf-8",
               !.body = <<"error message">>,
               !.trace = rq.trace \o stages \o <<"respond">>]

\* WriteImage with the headers written and the payload left out.
WriteImageNoBody(rq, contentType, xcache, payload, stages) ==
    [rq EXCEPT !.pc = "done", !.status = StatusOK,
               !.ctype = contentType, !.xcache = xcache,
               !.cacheControl = "public, max-age=31536000",
               !.body = << >>,
               !.trace = rq.trace \o stages \o <<"respond">>]

\* Lines 86-89, 113-116 and 152-155: the headers and the payload.
WriteImage(rq, contentType, xcache, payload, stages) ==
    [rq EXCEPT !.pc = "done", !.status = StatusOK,
               !.ctype = contentType, !.xcache = xcache,
               !.cacheControl = "public, max-age=31536000",
               !.body = payload,
               !.trace = rq.trace \o stages \o <<"respond">>]

\* The specifications of single components are not running.
OthersOff ==
    /\ lim = << >>
    /\ proc = [phase |-> "off"]
    /\ sniff = [phase |-> "off"]
    /\ engine = [phase |-> "off"]

Init ==
    /\ OthersOff
    /\ reqs = [r \in Reqs |-> NewReq]
    /\ cache = [k \in Keys |-> NoEntry]
    /\ tasks = {}
    /\ buckets = [c \in Clients |-> NoBucket]
    /\ now = 0
    /\ auth = [phase |-> "off"]
    /\ keyt = [phase |-> "off"]

\* A request arrives and runs the middlewares; when they admit it the
\* handler parses the query and builds the cache key (lines 37-77).
ReceiveOf(r, queries) ==
    /\ reqs[r].pc = "new"
    /\ \A o \in 1..(r - 1) : reqs[o].pc # "new"   \* requests arrive in id order
    /\ \E client \in Clients, q \in queries :
        LET c == RunChain(1, client, q.url, buckets, now, << >>)
            rq == [reqs[r] EXCEPT !.client = client, !.q = q,
                     !.after = {o \in Reqs : reqs[o].pc = "done"},
                     !.trace = c.trace]
        IN  /\ buckets' = c.buckets
            /\ reqs' = [reqs EXCEPT ![r] =
                  IF c.status # 0
                  THEN HttpError(rq, c.status, << >>)
                  ELSE [rq EXCEPT !.pc = "get",
                                  !.trace = Append(c.trace, "key")]]
    /\ UNCHANGED <<cache, tasks, now, auth, keyt, others>>

Receive(r) == ReceiveOf(r, Queries)

\* Line 80 with the error of the Get ignored.
CacheHitIgnoringErr(got) == TRUE

\* Line 80: err == nil.
CacheHit(got) == got.err = ""

\* Cache.Get under the request's context.
CacheGetResult(key, ctxDone, backendFails) ==
    IF ctxDone
    THEN [done |-> TRUE, err |-> "canceled", value |-> << >>, writer |-> 0]
    ELSE IF backendFails
    THEN [done |-> TRUE, err |-> "backend", value |-> << >>, writer |-> 0]
    ELSE IF ~cache[key].present
    THEN [done |-> TRUE, err |-> "redis.Nil", value |-> << >>, writer |-> 0]
    ELSE [done |-> TRUE, err |-> "", value |-> cache[key].value,
          writer |-> cache[key].writer]

\* Lines 79-91: the cache check, and the response on a hit.
CacheGet(r) ==
    /\ reqs[r].pc = "get"
    /\ \E backendFails \in BOOLEAN :
        LET rq == reqs[r]
            t == ParseQuery(rq.q)
            got == CacheGetResult(generateCacheKey(t), rq.cancelled,
                                  backendFails)
            rq1 == [rq EXCEPT !.got = got]
        IN  reqs' = [reqs EXCEPT ![r] =
              IF CacheHit(got)
              THEN WriteImage(rq1,
                              IF isSVG(got.value) THEN "image/svg+xml"
                              ELSE getContentType(t.format),
                              "HIT", got.value, <<"get">>)
              ELSE [rq1 EXCEPT !.pc = "fetch",
                               !.trace = Append(rq.trace, "get")]]
    /\ UNCHANGED <<cache, tasks, buckets, now, auth, keyt, others>>

\* The context of the detached Set taken from the request.
SetContextOfRequest == "request"

\* Lines 109 and 148: bgCtx := context.Background()
SetContext == "background"

\* The downloaded bytes handed to the Set of line 149.
SetValueSource(imageData, transformed) == imageData

\* Line 149: h.cache.Set(bgCtx, cacheKey, transformed)
SetValue(imageData, transformed) == transformed

\* Lines 93-155 on one upstream answer and one engine outcome: the
\* request as answered, and the value handed to the detached Set (spawn).
HandleMiss(rq, up, failAt) ==
    LET t == ParseQuery(rq.q)
        dl == downloadImage(t.url, up)
        r1 == [rq EXCEPT !.up = IF dl.sent THEN up.kind ELSE "none",
                         !.upLen = IF dl.sent THEN Len(up.body) ELSE 0,
                         !.src = dl.data,
                         !.fetches = dl.gets,
                         !.getHost = dl.host]
        tr == Transform(dl.data, TransformOptions(t), failAt)
    IN  IF dl.err
        THEN [spawn |-> FALSE, value |-> << >>,
              req |-> HttpError(r1, StatusBadGateway, <<"fetch">>)]
        ELSE IF TooLarge(dl.data)
        THEN [spawn |-> FALSE, value |-> << >>,
              req |-> HttpError(r1, StatusRequestEntityTooLarge,
                                <<"fetch", "size">>)]
        ELSE IF isSVG(dl.data)
        THEN [spawn |-> TRUE, value |-> dl.data,
              req |-> WriteImage([r1 EXCEPT !.sets = 1,
                                            !.setres = "pending"],
                                 "image/svg+xml", "MISS", dl.data,
                                 <<"fetch", "size", "sniff", "set">>)]
        ELSE IF tr.err
        THEN [spawn |-> FALSE, value |-> << >>,
              req |-> HttpError([r1 EXCEPT !.engineCalls = 1],
                                StatusInternalServerError,
                                <<"fetch", "size", "sniff", "transform">>)]
        ELSE [spawn |-> TRUE, value |-> SetValue(dl.data, tr.out),
              req |-> WriteImage([r1 EXCEPT !.engineCalls = 1, !.sets = 1,
                                            !.setres = "pending"],
                                 getContentType(t.format), "MISS", tr.out,
                                 <<"fetch", "size", "sniff", "transform",
                                   "set">>)]

\* Lines 93-155: download, size check, sniff, transform, spawn of the
\* detached Set, response.
Process(r) ==
    /\ reqs[r].pc = "fetch"
    /\ \E up \in Upstreams,
          failAt \in 0..Len(EngineOps(TransformOptions(ParseQuery(reqs[r].q)))) :
        LET h == HandleMiss(reqs[r], up, failAt)
        IN  /\ reqs' = [reqs EXCEPT ![r] = h.req]
            /\ tasks' = IF h.spawn
                        THEN tasks \cup {[req |-> r, key |-> KeyOf(reqs[r].q),
                                          value |-> h.value,
                                          ctx |-> SetContext]}
                        ELSE tasks
    /\ UNCHANGED <<cache, buckets, now, auth, keyt, others>>

\* Is the context of a detached Set done?  The request's context is done
\* once the client is gone or the handler has returned; the background
\* context never is.
CtxDone(task) ==
    /\ task.ctx = "request"
    /\ (reqs[task.req].cancelled \/ reqs[task.req].pc = "done")

\* The goroutine of lines 108-111 and 147-150 runs Cache.Set; its error is
\* dropped.
RunSet(task) ==
    /\ task \in tasks
    /\ tasks' = tasks \ {task}
    /\ \E backendFails \in BOOLEAN :
        IF CtxDone(task)
        THEN /\ cache' = cache
             /\ reqs' = [reqs EXCEPT ![task.req].setres = "aborted"]
        ELSE IF backendFails
        THEN /\ cache' = cache
             /\ reqs' = [reqs EXCEPT ![task.req].setres = "failed"]
        ELSE /\ cache' = [cache EXCEPT ![task.key] =
                            [present |-> TRUE, value |-> task.value,
                             ttl |-> CacheTTLCfg, writer |-> task.req,
                             lapsed |-> cache[task.key].lapsed]]
             /\ reqs' = [reqs EXCEPT ![task.req].setres = "ok"]
    /\ UNCHANGED <<buckets, now, auth, keyt, others>>

\* The client goes away and net/http cancels the request's context: before
\* the cache Get, the one call that takes this context, or after the
\* response while the detached Set is still to run.
Cancel(r) ==
    /\ reqs[r].pc = "get"
       \/ (reqs[r].pc = "done" /\ reqs[r].setres = "pending")
    /\ ~reqs[r].cancelled
    /\ reqs' = [reqs EXCEPT ![r].cancelled = TRUE]
    /\ UNCHANGED <<cache, tasks, buckets, now, auth, keyt, others>>

\* The store drops an entry whose TTL has run out.
Expire(k) ==
    /\ cache[k].present
    /\ cache' = [cache EXCEPT ![k] = [NoEntry EXCEPT !.lapsed = TRUE]]
    /\ UNCHANGED <<reqs, tasks, buckets, now, auth, keyt, others>>

\* Time passes: one refill interval of one token.
Tick ==
    /\ now < MaxTime
    /\ now' = now + 1
    /\ UNCHANGED <<reqs, cache, tasks, buckets, auth, keyt, others>>

Next ==
    \/ \E r \in Reqs : Receive(r)
    \/ \E r \in Reqs : CacheGet(r)
    \/ \E r \in Reqs : Process(r)
    \/ \E task \in tasks : RunSet(task)
    \/ \E r \in Reqs : Cancel(r)
    \/ \E k \in Keys : Expire(k)
    \/ Tick

Spec == Init /\ [][Next]_vars

\* The same server receiving the requests of CollidingQueries.
ReceiveColliding(r) == ReceiveOf(r, CollidingQueries)

NextCollide ==
    \/ \E r \in Reqs : ReceiveColliding(r)
    \/ \E r \in Reqs : CacheGet(r)
    \/ \E r \in Reqs : Process(r)
    \/ \E task \in tasks : RunSet(task)
    \/ \E r \in Reqs : Cancel(r)
    \/ \E k \in Keys : Expire(k)
    \/ Tick

SpecCollide == Init /\ [][NextCollide]_vars

----------------------------------------------------------------------------
(* SpecAuth: middleware.Auth alone, on every allow-list of up to           *)
(* MaxListLen entries and every url parameter of the model.                *)

Entries == {E_star, E_empty, H_example, H_other}

RECURSIVE ListsOfLen(_)
ListsOfLen(n) ==
    IF n = 0
    THEN {<< >>}
    ELSE {Append(l, e) : l \in ListsOfLen(n - 1), e \in Entries}

AllowLists == UNION {ListsOfLen(n) : n \in 0..MaxListLen}

\* No request pipeline in the specifications of the pure functions.
PipelineIdle ==
    /\ reqs = << >>
    /\ cache = << >>
    /\ tasks = {}
    /\ buckets = << >>
    /\ now = 0

InitAuth ==
    /\ PipelineIdle
    /\ OthersOff
    /\ keyt = [phase |-> "off"]
    /\ auth \in {[phase |-> "in", allowedDomains |-> l, url |-> u,
                   status |-> 0] : l \in AllowLists, u \in URLS}

\* One request through the middleware.
AuthCheck ==
    /\ auth.phase = "in"
    /\ auth' = [auth EXCEPT !.phase = "out",
                            !.status = Auth(auth.allowedDomains, auth.url)]
    /\ UNCHANGED <<reqs, cache, tasks, buckets, now, keyt, others>>

NextAuth == AuthCheck

SpecAuth == InitAuth /\ [][NextAuth]_vars

----------------------------------------------------------------------------
(* SpecKey: generateCacheKey on pairs of requests that differ in at most   *)
(* one field.                                                              *)

Fields ==
    {"url", "w", "h", "fit", "format", "quality", "crop", "blur", "sharpen",
     "brightness", "contrast", "saturation", "autoOptim", "grayscale",
     "flip", "rotate", "bg", "strip"}

FloatFields == {"sharpen", "brightness", "contrast", "saturation"}

FieldVals(f) ==
    CASE f = "url" -> {U_ok, U_img}
      [] f \in {"w", "h"} -> {0, 100, 101}
      [] f = "fit" -> {"cover", "attention", "none"}
      [] f = "format" -> {"jpeg", "webp", "avif", "png"}
      [] f = "quality" -> {1, 80, 81}
      [] f = "crop" -> {"", "0,0,10,10"}
      [] f = "blur" -> {0, 1, 2}
      [] f \in FloatFields -> FloatVals
      [] f \in {"autoOptim", "grayscale", "strip"} -> BOOLEAN
      [] f = "flip" -> {"", "h", "v", "both"}
      [] f = "rotate" -> {0, 90, 180, 270}
      [] f = "bg" -> {"", "ffffff"}

BaseReqs ==
    {ParseQuery(BaseQuery),
     [ParseQuery(BaseQuery) EXCEPT !.format = "webp", !.sharpen = 1004,
                                   !.brightness = -1, !.contrast = 1500,
                                   !.grayscale = TRUE, !.flip = "h",
                                   !.rotate = 90]}

InitKey ==
    /\ PipelineIdle
    /\ OthersOff
    /\ auth = [phase |-> "off"]
    /\ keyt \in UNION {{[phase |-> "in", field |-> f, a |-> t,
                          b |-> [t EXCEPT ![f] = v], ka |-> "", kb |-> ""] :
                            t \in BaseReqs, v \in FieldVals(f)} :
                        f \in Fields}

\* The handler builds the key of both requests.
KeyBuild ==
    /\ keyt.phase = "in"
    /\ keyt' = [keyt EXCEPT !.phase = "out",
                            !.ka = generateCacheKey(keyt.a),
                            !.kb = generateCacheKey(keyt.b)]
    /\ UNCHANGED <<reqs, cache, tasks, buckets, now, auth, others>>

NextKey == KeyBuild

SpecKey == InitKey /\ [][NextKey]_vars

----------------------------------------------------------------------------
(* Claims *)

\* A host is on the allow-list as the specification means it: some entry
\* is "*", or equals the host, or is a parent domain of it.
OnAllowList(host, allowedDomains) ==
    \E i \in 1..Len(allowedDomains) :
        \/ allowedDomains[i] = E_star
        \/ /\ allowedDomains[i] # E_empty
           /\ \/ host = allowedDomains[i]
              \/ HasSuffix(host, <<".">> \o allowedDomains[i])

\* C1: with allow-list ["*"] every host is admitted; with allow-list
\* ["example.com"] the hosts example.com and img.example.com are admitted
\* and evilexample.com is answered 403.
C1_AuthPredicate ==
    auth.phase = "out" =>
        /\ (auth.allowedDomains = <<E_star>>
              /\ auth.url \in {U_ok, U_img, U_evil, U_other})
                => auth.status = 0
        /\ (auth.allowedDomains = <<H_example>> /\ auth.url \in {U_ok, U_img})
                => auth.status = 0
        /\ (auth.allowedDomains = <<H_example>> /\ auth.url = U_evil)
                => auth.status = StatusForbidden

\* C3 as stated: identical requests get the same key, and changing any
\* single field to a different value gives a different key.
C3_AnyChangeChangesKey ==
    keyt.phase = "out" =>
        /\ keyt.a = keyt.b => keyt.ka = keyt.kb
        /\ keyt.a # keyt.b => keyt.ka # keyt.kb

\* Do two float values print differently under "%.2f"?
PrintsDiffer(x, y) ==
    \/ (Abs(x) + 5) \div 10 # (Abs(y) + 5) \div 10
    \/ (x < 0) # (y < 0)

\* C3, amended: identical requests get the same key; changing a single
\* field gives a different key, for a float field provided the two values
\* differ in their two-decimal rendering; two float values with the same
\* two-decimal rendering get the same key.
C3_KeySensitivity ==
    keyt.phase = "out" =>
        LET f == keyt.field
            differ == IF f \in FloatFields
                      THEN PrintsDiffer(keyt.a[f], keyt.b[f])
                      ELSE keyt.a[f] # keyt.b[f]
        IN  /\ differ => keyt.ka # keyt.kb
            /\ ~differ => keyt.ka = keyt.kb

\* C3 witness: two requests that differ only in sharpen, on either side of
\* a rounding boundary (1.004 and 1.006), have got different keys.
C3_Witness ==
    /\ keyt.phase = "out"
    /\ keyt.field = "sharpen"
    /\ keyt.a.sharpen = 1004 /\ keyt.b.sharpen = 1006
    /\ keyt.ka # keyt.kb

----------------------------------------------------------------------------
(* Claims about the request pipeline (Spec) *)

StageOrder ==
    <<"limit", "auth", "key", "get", "fetch", "size", "sniff", "transform",
      "set", "respond">>

Pos(stage) == CHOOSE i \in 1..Len(StageOrder) : StageOrder[i] = stage

\* The stages of a trace are in the fixed order.
InOrder(trace) ==
    \A i, j \in 1..Len(trace) : i < j => Pos(trace[i]) < Pos(trace[j])

\* No stage but the response runs without every stage before it having
\* run; only the transform may be left out (passthrough).
NoSkip(trace) ==
    \A i \in 1..Len(trace) :
        trace[i] # "respond" =>
            \A p \in 1..(Pos(trace[i]) - 1) :
                \/ StageOrder[p] = "transform"
                \/ \E j \in 1..(i - 1) : trace[j] = StageOrder[p]

\* The request has touched neither the cache nor the source nor the engine.
Untouched(r) ==
    /\ ~reqs[r].got.done
    /\ reqs[r].fetches = 0
    /\ reqs[r].engineCalls = 0
    /\ reqs[r].sets = 0
    /\ \A task \in tasks : task.req # r
    /\ \A k \in Keys : cache[k].writer # r

\* C2: the stages of every request run in the order rate-limit check,
\* authorization check, key build, cache Get, download, size check, sniff,
\* transform (left out on passthrough), cache Set, respond; a request the
\* rate limiter or the authorizer rejects runs no later stage.
C2_StageOrder ==
    \A r \in Reqs :
        LET rq == reqs[r]
        IN  /\ InOrder(rq.trace)
            /\ NoSkip(rq.trace)
            /\ rq.pc = "done" <=>
                  (rq.trace # << >> /\ rq.trace[Len(rq.trace)] = "respond")
            /\ rq.status = StatusTooManyRequests =>
                  (rq.trace = <<"limit", "respond">> /\ Untouched(r))
            /\ rq.status \in {StatusBadRequest, StatusForbidden} =>
                  (rq.trace = <<"limit", "auth", "respond">> /\ Untouched(r))
            /\ rq.xcache = "HIT" =>
                  rq.trace = <<"limit", "auth", "key", "get", "respond">>
            /\ (rq.xcache = "MISS" /\ rq.engineCalls = 1) =>
                  rq.trace = StageOrder

\* C2 witness: one request has run all ten stages and another has been
\* rejected by the rate limiter after the first stage.
C2_Witness ==
    \E r1, r2 \in Reqs :
        /\ reqs[r1].trace = StageOrder
        /\ reqs[r2].status = StatusTooManyRequests
        /\ reqs[r2].trace = <<"limit", "respond">>

\* C4 as stated: after a request was answered MISS, the identical request,
\* sent after that response with the cache backend healthy and within the
\* TTL, is answered HIT with the same body.
C4_RepeatIsHit ==
    \A r1, r2 \in Reqs :
        ( /\ reqs[r1].status = StatusOK /\ reqs[r1].xcache = "MISS"
          /\ reqs[r2].pc = "done" /\ r1 \in reqs[r2].after
          /\ reqs[r2].q = reqs[r1].q
          /\ reqs[r2].status # StatusTooManyRequests
          /\ reqs[r2].got.err \notin {"backend", "canceled"}
          /\ reqs[r1].setres # "failed"
          /\ ~cache[KeyOf(reqs[r1].q)].lapsed )
        => (reqs[r2].xcache = "HIT" /\ reqs[r2].body = reqs[r1].body)

\* C4, amended: a request whose cache Get reads an entry (backend healthy,
\* context not cancelled, entry stored and not expired) is answered 200
\* with X-Cache: HIT and the body of the MISS response of the request whose
\* detached Set wrote that entry, a request with the same key; no other
\* request is answered HIT.
C4_HitAfterSet ==
    \A r2 \in Reqs :
        LET rq == reqs[r2]
            r1 == rq.got.writer
        IN  /\ (rq.got.done /\ rq.got.err = "") =>
                  /\ rq.pc = "done" /\ rq.status = StatusOK
                  /\ rq.xcache = "HIT"
                  /\ r1 \in Reqs \ {r2}
                  /\ reqs[r1].status = StatusOK /\ reqs[r1].xcache = "MISS"
                  /\ KeyOf(reqs[r1].q) = KeyOf(rq.q)
                  /\ rq.body = reqs[r1].body
            /\ rq.xcache = "HIT" => (rq.got.done /\ rq.got.err = "")

\* C4 witness: a request was answered MISS, its Set has run, and the
\* identical request sent after it has been answered HIT with the same
\* body.
C4_Witness ==
    \E r1, r2 \in Reqs :
        /\ reqs[r1].xcache = "MISS" /\ reqs[r1].setres = "ok"
        /\ r1 \in reqs[r2].after
        /\ reqs[r2].q = reqs[r1].q
        /\ reqs[r2].xcache = "HIT"
        /\ reqs[r2].body = reqs[r1].body

\* C5: of an upstream body the downloader reads at most maxImageSize+1
\* bytes; a body of more than maxImageSize bytes is answered 413 with no
\* transform and no cache write; a body of at most maxImageSize bytes
\* passes the size check; the declared length plays no part.
C5_SizeEnforcement ==
    \A r \in Reqs :
        LET rq == reqs[r]
        IN  /\ (rq.fetches = 1 /\ rq.up = "ok") =>
                  /\ Len(rq.src) <= MaxImageSizeCfg + 1
                  /\ Len(rq.src) = Min(rq.upLen, MaxImageSizeCfg + 1)
                  /\ rq.upLen > MaxImageSizeCfg =>
                        /\ rq.status = StatusRequestEntityTooLarge
                        /\ rq.engineCalls = 0 /\ rq.sets = 0
                        /\ \A task \in tasks : task.req # r
                        /\ \A k \in Keys : cache[k].writer # r
                  /\ rq.upLen <= MaxImageSizeCfg =>
                        /\ rq.status # StatusRequestEntityTooLarge
                        /\ \E i \in 1..Len(rq.trace) : rq.trace[i] = "sniff"
            /\ rq.pc = "fetch" =>
                  \A u1, u2 \in Upstreams,
                     e \in 0..Len(EngineOps(TransformOptions(ParseQuery(rq.q)))) :
                      (u1.kind = u2.kind /\ u1.body = u2.body) =>
                          HandleMiss(rq, u1, e) = HandleMiss(rq, u2, e)

\* C5 witness: a body longer than the read cap was cut at maxImageSize+1
\* bytes and answered 413, and a body of exactly maxImageSize bytes was
\* answered 200.
C5_Witness ==
    \E r1, r2 \in Reqs :
        /\ reqs[r1].upLen > MaxImageSizeCfg + 1
        /\ Len(reqs[r1].src) = MaxImageSizeCfg + 1
        /\ reqs[r1].status = StatusRequestEntityTooLarge
        /\ reqs[r2].upLen = MaxImageSizeCfg
        /\ reqs[r2].status = StatusOK

\* The payload begins with an opening svg tag: "<svg" and the byte that
\* ends the tag name.
BeginsWithSvgTag(data) ==
    /\ Len(data) >= 5
    /\ SubSeq(data, 1, 4) = <<"<", "s", "v", "g">>
    /\ data[5] \in {">", " ", "/"}

\* What the handler answers on the miss path, told from the upstream
\* answer, the bytes read and whether the engine ran: 502, 413, the source
\* as it is (vector), 500, or the engine's output.
MissResponseOK(r) ==
    LET rq == reqs[r]
        out == Transform(rq.src, TransformOptions(ParseQuery(rq.q)), 0).out
    IN  IF rq.up # "ok"
        THEN rq.status = StatusBadGateway
        ELSE IF rq.upLen > MaxImageSizeCfg
        THEN rq.status = StatusRequestEntityTooLarge
        ELSE \/ /\ rq.engineCalls = 0
                /\ rq.status = StatusOK /\ rq.xcache = "MISS"
                /\ rq.ctype = "image/svg+xml" /\ rq.body = rq.src
             \/ /\ rq.engineCalls = 1
                /\ rq.status = StatusInternalServerError
             \/ /\ rq.engineCalls = 1
                /\ rq.status = StatusOK /\ rq.xcache = "MISS"
                /\ rq.ctype = getContentType(ParseQuery(rq.q).format)
                /\ rq.body = out

\* C6: when the downloaded payload, having passed the size check, begins
\* with an opening svg tag, the engine is not invoked, the response is 200
\* with the source bytes as body and Content-Type image/svg+xml whatever
\* the requested format, and those bytes are what the detached Set writes
\* under the request's key.
C6_VectorPassthrough ==
    \A r \in Reqs :
        LET rq == reqs[r]
        IN  ( /\ rq.fetches = 1 /\ rq.up = "ok"
              /\ Len(rq.src) <= MaxImageSizeCfg
              /\ BeginsWithSvgTag(rq.src) )
            => /\ rq.engineCalls = 0
               /\ rq.status = StatusOK
               /\ rq.body = rq.src
               /\ rq.ctype = "image/svg+xml"
               /\ rq.sets = 1
               /\ rq.setres = "pending" =>
                     [req |-> r, key |-> KeyOf(rq.q), value |-> rq.src,
                      ctx |-> "background"] \in tasks
               /\ \A task \in tasks :
                     task.req = r =>
                        (task.key = KeyOf(rq.q) /\ task.value = rq.src)
               /\ \A k \in Keys :
                     (cache[k].present /\ cache[k].writer = r) =>
                        (k = KeyOf(rq.q) /\ cache[k].value = rq.src)

\* C6 witness: a request for format png got a vector payload, was answered
\* with it as image/svg+xml, and its Set has stored the same bytes.
C6_Witness ==
    \E r \in Reqs :
        /\ reqs[r].q.f = "png"
        /\ BeginsWithSvgTag(reqs[r].src)
        /\ reqs[r].status = StatusOK
        /\ reqs[r].ctype = "image/svg+xml"
        /\ reqs[r].body = reqs[r].src
        /\ cache[KeyOf(reqs[r].q)].present
        /\ cache[KeyOf(reqs[r].q)].writer = r
        /\ cache[KeyOf(reqs[r].q)].value = reqs[r].src

\* C7: a detached Set is never aborted by its request's context (client
\* gone, handler returned): while it is pending it can always run, and
\* once it has run it has written the entry or failed on the backend, with
\* the response already sent.
C7_DetachedSet ==
    /\ \A task \in tasks :
          /\ ENABLED RunSet(task)
          /\ reqs[task.req].pc = "done"
          /\ reqs[task.req].setres = "pending"
    /\ \A r \in Reqs :
          /\ reqs[r].setres # "aborted"
          /\ reqs[r].setres = "pending" => \E task \in tasks : task.req = r
          /\ reqs[r].sets = 1 <=> reqs[r].setres # "none"

\* C7 witness: the client of a request went away, and the Set of that
\* request has written its entry all the same.
C7_Witness ==
    \E r \in Reqs :
        /\ reqs[r].cancelled
        /\ reqs[r].setres = "ok"
        /\ cache[KeyOf(reqs[r].q)].present
        /\ cache[KeyOf(reqs[r].q)].writer = r

C9_InvalidInput ==
    \A r \in Reqs :
        LET rq == reqs[r]
        IN  ( /\ rq.pc = "done" /\ rq.status # StatusTooManyRequests
              /\ (rq.q.url = "" \/ UrlParse(rq.q.url).err) )
            => /\ rq.status = StatusBadRequest
               /\ Untouched(r)

\* C10: a host not on the allow-list is answered 403, an exhausted bucket
\* 429, a failed fetch 502, an oversized payload 413, an engine failure
\* 500; none of these is retried, carries image bytes or writes the cache.
C10_ErrorTaxonomy ==
    \A r \in Reqs :
        LET rq == reqs[r]
            parsed == AuthParsedURL(rq.q.url)
        IN  rq.pc = "done" =>
            /\ rq.trace = <<"limit", "respond">> =>
                  rq.status = StatusTooManyRequests
            /\ ( /\ rq.status # StatusTooManyRequests
                 /\ rq.q.url # "" /\ ~parsed.err
                 /\ ~OnAllowList(parsed.host, AllowedDomainsCfg) )
                  => rq.status = StatusForbidden
            /\ (rq.fetches = 1 /\ rq.up # "ok") =>
                  rq.status = StatusBadGateway
            /\ (rq.up = "ok" /\ rq.upLen > MaxImageSizeCfg) =>
                  rq.status = StatusRequestEntityTooLarge
            /\ (rq.engineCalls = 1 /\ rq.sets = 0) =>
                  rq.status = StatusInternalServerError
            /\ rq.status \in {StatusForbidden, StatusTooManyRequests,
                               StatusBadGateway, StatusRequestEntityTooLarge,
                               StatusInternalServerError} =>
                  /\ rq.fetches <= 1
                  /\ rq.body = <<"error message">> /\ rq.xcache = ""
                  /\ rq.sets = 0
                  /\ \A task \in tasks : task.req # r
                  /\ \A k \in Keys : cache[k].writer # r

----------------------------------------------------------------------------
(* SpecLimit: the rate limiter alone.  One client key sends up to          *)
(* LimChecks requests while the clock advances; the limiter's capacity is  *)
(* 1..LimCapacity tokens, one token being refilled per tick, so that the   *)
(* window of "capacity requests per second" is capacity ticks long.        *)

LimChecks == 4     \* requests in one behaviour
LimTime == 3       \* clock ticks in one behaviour
LimCapacity == 2   \* largest capacity tried

InitLimit ==
    /\ reqs = << >> /\ cache = << >> /\ tasks = {}
    /\ buckets = [c \in Clients |-> NoBucket]
    /\ now = 0
    /\ auth = [phase |-> "off"] /\ keyt = [phase |-> "off"]
    /\ proc = [phase |-> "off"] /\ sniff = [phase |-> "off"]
    /\ engine = [phase |-> "off"]
    /\ lim \in {[capacity |-> n, log |-> << >>] : n \in 1..LimCapacity}

\* RateLimiter.Limit on one request: the request is passed on (status 0)
\* or answered 429 in the same step.
LimitCheck(client) ==
    /\ Len(lim.log) < LimChecks
    /\ LET c == Check(lim.capacity, buckets, client, now)
       IN  /\ buckets' = c.buckets
           /\ lim' = [lim EXCEPT !.log = Append(@,
                        [client |-> client, at |-> now, answered |-> now,
                         allowed |-> c.allowed,
                         status |-> IF c.allowed THEN 0
                                    ELSE StatusTooManyRequests])]
    /\ UNCHANGED <<reqs, cache, tasks, now, auth, keyt, proc, sniff, engine>>

\* One refill tick passes.
LimitTick ==
    /\ now < LimTime
    /\ now' = now + 1
    /\ UNCHANGED <<reqs, cache, tasks, buckets, auth, keyt, others>>

NextLimit ==
    \/ \E client \in Clients : LimitCheck(client)
    \/ LimitTick

SpecLimit == InitLimit /\ [][NextLimit]_vars

\* The requests of the client of request i that precede it.
Earlier(i) == {j \in 1..(i - 1) : lim.log[j].client = lim.log[i].client}

\* Those of them admitted in the window of request i: the last
\* lim.capacity ticks, which is one second.
AdmittedInWindow(i) ==
    {j \in Earlier(i) : lim.log[j].allowed
                         /\ lim.log[j].at > lim.log[i].at - lim.capacity}

\* Those of them admitted at the very tick of request i.
AdmittedAtOnce(i) ==
    {j \in Earlier(i) : lim.log[j].allowed /\ lim.log[j].at = lim.log[i].at}

\* The first capacity requests of a client are admitted.
FirstAdmitted ==
    \A i \in 1..Len(lim.log) :
        Cardinality(Earlier(i)) < lim.capacity => lim.log[i].allowed

\* A request that comes a full refill interval after the client's last one
\* is admitted.
AdmittedAfterRefill ==
    \A i \in 1..Len(lim.log) :
        (\A j \in Earlier(i) : lim.log[j].at <= lim.log[i].at - lim.capacity)
            => lim.log[i].allowed

\* A denial is answered 429 at the time of the check.
DeniedAtOnce ==
    \A i \in 1..Len(lim.log) :
        /\ ~lim.log[i].allowed <=> lim.log[i].status = StatusTooManyRequests
        /\ lim.log[i].answered = lim.log[i].at

\* C11 as stated: with capacity N, the first N requests of a client are
\* admitted, a request that follows N admitted ones within the same window
\* (one second, N ticks) is denied with 429 at once, and a request after a
\* full refill interval is admitted.
C11_WindowLimit ==
    /\ FirstAdmitted
    /\ \A i \in 1..Len(lim.log) :
          Cardinality(AdmittedInWindow(i)) >= lim.capacity
              => ~lim.log[i].allowed
    /\ DeniedAtOnce
    /\ AdmittedAfterRefill

\* C11 amended: with capacity N, the first N requests of a client are
\* admitted, a request that follows N admitted ones before any token has
\* been refilled (at the same tick) is denied with 429 at once, and a
\* request after a full refill interval is admitted.
C11_TokenBucket ==
    /\ FirstAdmitted
    /\ \A i \in 1..Len(lim.log) :
          Cardinality(AdmittedAtOnce(i)) >= lim.capacity
              => ~lim.log[i].allowed
    /\ DeniedAtOnce
    /\ AdmittedAfterRefill

\* C11 witness: capacity 2; two requests admitted and a third denied at
\* the same tick, and a fourth admitted a full interval later.
C11_Witness ==
    /\ lim.capacity = 2
    /\ Len(lim.log) = 4
    /\ lim.log[1].allowed /\ lim.log[2].allowed
    /\ ~lim.log[3].allowed /\ lim.log[3].status = StatusTooManyRequests
    /\ lim.log[3].at = lim.log[1].at
    /\ lim.log[4].at >= lim.log[3].at + 2
    /\ lim.log[4].allowed

----------------------------------------------------------------------------
(* SpecProc: Processor.Transform alone, called by the handler's miss path  *)
(* on a raster payload, for a range of transform parameters and for every  *)
(* engine call that may fail.                                              *)

V(f, v) == [BaseQuery EXCEPT ![f] = v]

ProcQueries ==
    {BaseQuery, [BaseQuery EXCEPT !.w = 0, !.h = 0]}
    \cup {V("rotate", v) : v \in {90, 180, 45, -90}}
    \cup {V("flip", v) : v \in {"h", "v", "both", "x"}}
    \cup {[BaseQuery EXCEPT !.rotate = 90, !.flip = "h"]}
    \cup {V("crop", v) : v \in {"0,0,10,10", "abc", "1,2,3,4px"}}
    \cup {V("auto", "true"), V("blur", 2), V("grayscale", "true"),
          V("bw", "true"), V("brightness", -1004)}
    \cup {V("sharpen", v) : v \in {1500, -1}}
    \cup {V("contrast", v) : v \in {1000, 1500}}
    \cup {V("saturation", v) : v \in {1000, 1500}}
    \cup {V("f", v) : v \in {"webp", "avif", "png", "svg", "gif", "jpg",
                              "jpeg"}}
    \cup {V("fit", v) : v \in {"attention", "none"}}
    \cup {[BaseQuery EXCEPT !.f = "webp", !.q = 100]}
    \cup {[BaseQuery EXCEPT !.rotate = 270, !.flip = "both",
                            !.crop = "1,2,3,4", !.auto = "1",
                            !.sharpen = 1500, !.blur = 1,
                            !.grayscale = "true", !.brightness = 4,
                            !.contrast = 1500, !.saturation = 1500,
                            !.f = "png", !.strip = "false"]}

OptsOf(q) == TransformOptions(ParseQuery(q))

\* The payload the source serves: a raster image within the size limit.
ProcBody == Pad(P_raster, MaxImageSizeCfg)

InitProc ==
    /\ PipelineIdle
    /\ auth = [phase |-> "off"] /\ keyt = [phase |-> "off"]
    /\ lim = << >> /\ sniff = [phase |-> "off"]
    /\ engine = [phase |-> "off"]
    /\ proc \in UNION {{[phase |-> "in", q |-> q, failAt |-> n,
                          run |-> [err |-> FALSE, ops |-> << >>,
                                   out |-> << >>],
                          h |-> [spawn |-> FALSE, value |-> << >>,
                                 req |-> NewReq]] :
                            n \in 0..Len(EngineOps(OptsOf(q)))} :
                        q \in ProcQueries}

\* The miss path of the handler on the payload, with the Transform call
\* it makes.
TransformCall ==
    /\ proc.phase = "in"
    /\ proc' = [proc EXCEPT
          !.phase = "out",
          !.run = TransformRun(ProcBody, OptsOf(proc.q), proc.failAt),
          !.h = HandleMiss([NewReq EXCEPT !.q = proc.q, !.pc = "fetch"],
                           [kind |-> "ok", body |-> ProcBody,
                            declared |-> -1],
                           proc.failAt)]
    /\ UNCHANGED <<reqs, cache, tasks, buckets, now, auth, keyt, lim, sniff,
                   engine>>

NextProc == TransformCall

SpecProc == InitProc /\ [][NextProc]_vars

\* The fixed order of the stages.
StageList ==
    <<"load", "auto-orient", "rotate", "flip", "resize", "crop",
      "auto-sharpen", "sharpen", "blur", "grayscale", "brightness",
      "contrast", "saturation", "encode">>

StagePos(stage) == CHOOSE i \in 1..Len(StageList) : StageList[i] = stage

\* The condition under which a stage is due.
StageDue(stage, o) ==
    CASE stage = "rotate"       -> o.Rotate > 0
      [] stage = "flip"         -> o.Flip \in {"h", "v", "both"}
      [] stage = "resize"       -> o.Width > 0 \/ o.Height > 0
      [] stage = "crop"         -> SscanfCrop(o.Crop)
      [] stage = "auto-sharpen" -> o.AutoOptim
      [] stage = "sharpen"      -> o.Sharpen > 0
      [] stage = "blur"         -> o.Blur > 0
      [] stage = "grayscale"    -> o.Grayscale
      [] stage = "brightness"   -> o.Brightness # 0
      [] stage = "contrast"     -> o.Contrast \notin {0, 1000}
      [] stage = "saturation"   -> o.Saturation \notin {0, 1000}
      [] OTHER                  -> TRUE

\* C12: the engine calls of Transform follow the fixed order of the stages
\* (load, auto-orient, rotate, flip, resize, crop, auto-sharpen, sharpen,
\* blur, grayscale, brightness, contrast, saturation, encode), a stage is
\* run exactly when its condition holds, and rotate=90 with flip=h is a
\* rotation by 90 followed by a horizontal flip.
C12_FixedOrder ==
    proc.phase = "out" =>
        LET ops == proc.run.ops
            o == OptsOf(proc.q)
        IN  /\ \A i, j \in 1..Len(ops) :
                  i < j => StagePos(ops[i].stage) <= StagePos(ops[j].stage)
            /\ \A i \in 1..Len(ops) :
                  \E k \in 1..Len(StageList) : StageList[k] = ops[i].stage
            /\ proc.failAt = 0 =>
                  \A k \in 1..Len(StageList) :
                      (\E i \in 1..Len(ops) : ops[i].stage = StageList[k])
                          <=> StageDue(StageList[k], o)
            /\ (proc.failAt = 0 /\ o.Rotate = 90 /\ o.Flip = "h") =>
                  \E i, j \in 1..Len(ops) :
                      /\ i < j
                      /\ ops[i] = Op("rotate", "Rotate", "Angle90")
                      /\ ops[j] = Op("flip", "Flip", "DirectionHorizontal")

\* C12 witness: Transform has run for rotate=90 with flip=h, and the
\* rotation was the call just before the flip.
C12_Witness ==
    /\ proc.phase = "out" /\ proc.failAt = 0
    /\ proc.q.rotate = 90 /\ proc.q.flip = "h"
    /\ \E i \in 1..(Len(proc.run.ops) - 1) :
          /\ proc.run.ops[i].op = "Rotate"
          /\ proc.run.ops[i + 1].op = "Flip"

\* C15: when an engine call of Transform fails, it is the last call made,
\* Transform returns an error and no bytes, the handler answers 500 with no
\* image bytes and starts no cache Set.
C15_TransformAbort ==
    (proc.phase = "out" /\ proc.failAt > 0) =>
        /\ Len(proc.run.ops) = proc.failAt
        /\ proc.run.err /\ proc.run.out = << >>
        /\ proc.h.req.status = StatusInternalServerError
        /\ proc.h.req.body = <<"error message">>
        /\ proc.h.req.xcache = ""
        /\ proc.h.req.engineCalls = 1
        /\ ~proc.h.spawn /\ proc.h.value = << >>
        /\ proc.h.req.sets = 0 /\ proc.h.req.setres = "none"

\* C15 witness: the conversion back from the saturation stage failed, the
\* encoder was not called, and the handler answered 500.
C15_Witness ==
    /\ proc.phase = "out" /\ proc.failAt > 0
    /\ proc.run.ops[proc.failAt] =
          Op("saturation", "ToColorSpace", "originalSpace")
    /\ \A i \in 1..Len(proc.run.ops) : proc.run.ops[i].stage # "encode"
    /\ proc.h.req.status = StatusInternalServerError

\* The media type of the format the engine encodes to.
MimeOf(encoded) ==
    CASE encoded = "webp" -> "image/webp"
      [] encoded = "avif" -> "image/avif"
      [] encoded = "png"  -> "image/png"
      [] OTHER            -> "image/jpeg"

\* C13: every 200 response carries Cache-Control: public,
\* max-age=31536000; X-Cache is HIT exactly when the body came from a
\* successful cache Get and MISS otherwise; the body is the cached payload,
\* the source (passthrough) or the engine's output, verbatim; and the
\* Content-Type is image/svg+xml for a vector payload and otherwise the
\* media type of the format the payload is encoded in.
C13_ResponseAssembly ==
    \A r \in Reqs :
        LET rq == reqs[r]
            t == ParseQuery(rq.q)
            hit == rq.got.done /\ rq.got.err = ""
        IN  (rq.pc = "done" /\ rq.status = StatusOK) =>
            /\ rq.cacheControl = "public, max-age=31536000"
            /\ rq.xcache = IF hit THEN "HIT" ELSE "MISS"
            /\ rq.body = IF hit THEN rq.got.value
                         ELSE IF rq.engineCalls = 0 THEN rq.src
                         ELSE Transform(rq.src, TransformOptions(t), 0).out
            /\ hit => (rq.fetches = 0 /\ rq.engineCalls = 0)
            /\ rq.ctype = IF isSVG(rq.body) THEN "image/svg+xml"
                          ELSE MimeOf(ExportFormat(t.format))

----------------------------------------------------------------------------
(* SpecSer: generateCacheKey on pairs of requests whose string parameters  *)
(* are arbitrary strings, some of them holding the separator ":".          *)

S0 == ParseQuery(BaseQuery)

SerReqs ==
    {S0}
    \cup {[S0 EXCEPT !.fit = x, !.format = y] :
            x \in {"a", "a:b"}, y \in {"c", "b:c"}}
    \cup {[S0 EXCEPT !.url = "u:1", !.w = 2, !.h = 3, !.fit = "cover"],
          [S0 EXCEPT !.url = "u", !.w = 1, !.h = 2, !.fit = "3:cover"]}
    \cup {[S0 EXCEPT !.crop = x, !.blur = y] :
            x \in {"", "0,0,10,10"}, y \in {0, 1}}
    \cup {[S0 EXCEPT !.flip = x, !.bg = y] :
            x \in {"", "h"}, y \in {"", "ffffff"}}

InitSer ==
    /\ PipelineIdle
    /\ OthersOff
    /\ auth = [phase |-> "off"]
    /\ keyt \in {[phase |-> "in", field |-> "any", a |-> x, b |-> y,
                   ka |-> "", kb |-> ""] : x \in SerReqs, y \in SerReqs}

SpecSer == InitSer /\ [][NextKey]_vars

\* C14: two different requests never have the same pre-hash serialization,
\* hence never the same key, also when their string fields hold the
\* separator.
C14_InjectiveSerialization ==
    (keyt.phase = "out" /\ keyt.a # keyt.b) =>
        /\ Serialize(keyt.a) # Serialize(keyt.b)
        /\ keyt.ka # keyt.kb

\* Two requests with the same cache key that both missed and both got a
\* source that can be served.
BothMissed(r1, r2) ==
    /\ r1 # r2
    /\ reqs[r1].pc = "done" /\ reqs[r2].pc = "done"
    /\ KeyOf(reqs[r1].q) = KeyOf(reqs[r2].q)
    /\ \A r \in {r1, r2} :
          /\ reqs[r].got.done /\ reqs[r].got.err # ""
          /\ reqs[r].status = StatusOK

\* C16: two requests with the same key that both miss each download,
\* transform (or pass through) and Set on their own and are both answered
\* MISS with the body of their own miss path; once their Sets have run
\* (and the entry has not run out), the cache holds under the key the
\* body of one of them whose Set succeeded, and their bodies are equal
\* when they read the same source bytes.
C16_ConcurrentMisses ==
    \A r1, r2 \in Reqs :
        BothMissed(r1, r2) =>
            LET k == KeyOf(reqs[r1].q)
                wrote == {r \in {r1, r2} : reqs[r].setres = "ok"}
            IN  /\ \A r \in {r1, r2} :
                      /\ reqs[r].fetches = 1 /\ reqs[r].sets = 1
                      /\ reqs[r].xcache = "MISS"
                      /\ MissResponseOK(r)
                      /\ reqs[r].body # << >>
                /\ reqs[r1].src = reqs[r2].src =>
                      reqs[r1].body = reqs[r2].body
                /\ ( /\ reqs[r1].setres \in {"ok", "failed"}
                     /\ reqs[r2].setres \in {"ok", "failed"}
                     /\ wrote # {} /\ ~cache[k].lapsed )
                      => /\ cache[k].present
                         /\ cache[k].writer \in wrote
                         /\ cache[k].value = reqs[cache[k].writer].body

\* C16 witness: the second request arrived before the first was answered,
\* both missed, both Sets have written, and the cache holds the body of one.
C16_Witness ==
    /\ BothMissed(1, 2)
    /\ 1 \notin reqs[2].after
    /\ reqs[1].setres = "ok" /\ reqs[2].setres = "ok"
    /\ cache[KeyOf(reqs[1].q)].present
    /\ cache[KeyOf(reqs[1].q)].value \in {reqs[1].body, reqs[2].body}

\* The responses that are errors.
ErrorStatuses ==
    {StatusBadRequest, StatusForbidden, StatusTooManyRequests,
     StatusBadGateway, StatusRequestEntityTooLarge,
     StatusInternalServerError}

\* Request r wrote nothing and will write nothing to the cache.
NoWriteBy(r) ==
    /\ reqs[r].sets = 0 /\ reqs[r].setres = "none"
    /\ \A task \in tasks : task.req # r
    /\ \A k \in Keys : cache[k].writer # r

\* Request r is one that may write value under key k: its download
\* succeeded with at most maxImageSize bytes, and value is its transform's
\* output or, for a vector payload, the source.
MayWrite(r, k, value) ==
    LET rq == reqs[r]
    IN  /\ k = KeyOf(rq.q)
        /\ rq.status = StatusOK /\ rq.xcache = "MISS"
        /\ rq.fetches = 1 /\ rq.up = "ok"
        /\ rq.upLen <= MaxImageSizeCfg /\ Len(rq.src) <= MaxImageSizeCfg
        /\ \/ rq.engineCalls = 0 /\ isSVG(rq.src) /\ value = rq.src
           \/ /\ rq.engineCalls = 1
              /\ value = Transform(rq.src, OptsOf(rq.q), 0).out

\* C17: every cache entry, and every Set still to run, is of a request
\* whose download succeeded with at most maxImageSize bytes and whose
\* transform succeeded (or that passed a vector through); every entry has
\* the configured TTL; an error response or a cache hit writes nothing.
C17_ArtifactLifecycle ==
    /\ \A k \in Keys :
          cache[k].present =>
              /\ cache[k].writer \in Reqs
              /\ MayWrite(cache[k].writer, k, cache[k].value)
              /\ cache[k].ttl = CacheTTLCfg
    /\ \A task \in tasks : MayWrite(task.req, task.key, task.value)
    /\ \A r \in Reqs :
          (reqs[r].pc = "done"
           /\ (reqs[r].status \in ErrorStatuses \/ reqs[r].xcache = "HIT"))
              => NoWriteBy(r)

\* C17 witness: an entry written by a miss, a later request served from it,
\* and a request answered 413.
C17_Witness ==
    /\ \E k \in Keys : cache[k].present /\ cache[k].writer = 1
    /\ reqs[1].status = StatusOK
    /\ reqs[2].pc = "done"
    /\ reqs[2].status = StatusRequestEntityTooLarge

----------------------------------------------------------------------------
(* SpecMain: the server process, cmd/server/main.go: start-up, serving,    *)
(* the signal goroutine and the ways main ends.  log.Fatalf ends the       *)
(* process with os.Exit(1), which runs no deferred call.  ListenAndServe   *)
(* returns as soon as server.Shutdown is called, while Shutdown still      *)
(* waits for the handlers.                                                 *)

MainReqs == 3   \* requests the server is sent in one behaviour

\* pc: where main is; starts, stops: calls of vips.Startup and
\* vips.Shutdown; closes: calls of cacheClient.Close; by: who started or
\* stopped the engine; sig: the signal goroutine; rq: the requests
\* ("transform": the handler has not yet returned from
\* Processor.Transform, "respond": it has, and its Set is spawned); set:
\* their detached cache Sets; after: the operations that ran on an engine
\* already shut down or a cache client already closed; exit: the exit code
\* (-1 while the process runs).
InitMain ==
    /\ PipelineIdle
    /\ auth = [phase |-> "off"] /\ keyt = [phase |-> "off"]
    /\ lim = << >> /\ proc = [phase |-> "off"]
    /\ sniff = [phase |-> "off"]
    /\ engine = [phase |-> "on", pc |-> "start", starts |-> 0, stops |-> 0,
                 closes |-> 0, by |-> {}, sig |-> "off",
                 rq |-> [i \in 1..MainReqs |-> "none"],
                 set |-> [i \in 1..MainReqs |-> "none"],
                 after |-> {}, exit |-> -1]

MainUnchanged ==
    UNCHANGED <<reqs, cache, tasks, buckets, now, auth, keyt, lim, proc,
                sniff>>

\* log.Fatalf: os.Exit(1), no deferred call runs.
Fatal == [engine EXCEPT !.pc = "exited", !.exit = 1]

\* Lines 32-37: cache.NewCache connects, or main ends with log.Fatalf.
MainNewCache ==
    /\ engine.pc = "start"
    /\ \E ok \in BOOLEAN :
          engine' = IF ok THEN [engine EXCEPT !.pc = "cache"] ELSE Fatal
    /\ MainUnchanged

\* Lines 39-41: processor.NewProcessor calls vips.Startup; Shutdown is
\* deferred.
MainNewProcessor ==
    /\ engine.pc = "cache"
    /\ engine' = [engine EXCEPT !.pc = "engine", !.starts = @ + 1,
                                !.by = @ \cup {"main"}]
    /\ MainUnchanged

\* Lines 69-84: the goroutine that waits for SIGINT or SIGTERM is started.
MainNotify ==
    /\ engine.pc = "engine"
    /\ engine' = [engine EXCEPT !.pc = "listen", !.sig = "waiting"]
    /\ MainUnchanged

\* Line 89: ListenAndServe binds the port and serves; or it fails and main
\* ends with log.Fatalf; or Shutdown was already called and it returns
\* ErrServerClosed.
MainListen ==
    /\ engine.pc = "listen"
    /\ IF engine.sig # "waiting"
       THEN engine' = [engine EXCEPT !.pc = "returning"]
       ELSE \E ok \in BOOLEAN :
              engine' = IF ok THEN [engine EXCEPT !.pc = "serving"]
                        ELSE Fatal
    /\ MainUnchanged

\* The server accepts a request and starts its handler.
Accept(i) ==
    /\ engine.pc = "serving"
    /\ engine.rq[i] = "none"
    /\ engine' = [engine EXCEPT !.rq[i] = "transform"]
    /\ MainUnchanged

\* Handler.Transform, lines 141-150: Processor.Transform returns and the
\* goroutine of the cache Set is started.
HandlerTransform(i) ==
    /\ engine.pc # "exited"
    /\ engine.rq[i] = "transform"
    /\ engine' = [engine EXCEPT
          !.rq[i] = "respond", !.set[i] = "pending",
          !.after = IF engine.stops > 0 THEN @ \cup {"transform"} ELSE @]
    /\ MainUnchanged

\* Handler.Transform, lines 152-156: the response is written and the
\* handler returns.
Finish(i) ==
    /\ engine.pc # "exited"
    /\ engine.rq[i] = "respond"
    /\ engine' = [engine EXCEPT !.rq[i] = "done"]
    /\ MainUnchanged

\* Lines 147-150: the detached goroutine runs h.cache.Set.
DetachedSet(i) ==
    /\ engine.pc # "exited"
    /\ engine.set[i] = "pending"
    /\ engine' = [engine EXCEPT
          !.set[i] = "done",
          !.after = IF engine.closes > 0 THEN @ \cup {"set"} ELSE @]
    /\ MainUnchanged

\* Lines 89-91: the listener fails while serving; main ends with
\* log.Fatalf.
ServeError ==
    /\ engine.pc = "serving"
    /\ engine' = Fatal
    /\ MainUnchanged

\* Lines 72-79: a signal arrives and the goroutine calls server.Shutdown;
\* ListenAndServe returns ErrServerClosed at once.
Signal ==
    /\ engine.pc \in {"listen", "serving"}
    /\ engine.sig = "waiting"
    /\ engine' = [engine EXCEPT
          !.sig = "shutting",
          !.pc = IF engine.pc = "serving" THEN "returning" ELSE @]
    /\ MainUnchanged

\* Lines 76-83: server.Shutdown returns: every handler has returned, or
\* the 10 seconds of its context are over.
ShutdownDone ==
    /\ engine.pc # "exited"
    /\ engine.sig = "shutting"
    /\ \E timedOut \in BOOLEAN :
          timedOut \/ \A i \in 1..MainReqs :
                          engine.rq[i] \in {"none", "done"}
    /\ engine' = [engine EXCEPT !.sig = "done"]
    /\ MainUnchanged

\* Lines 40 and 92: main returns from ListenAndServe; the call deferred
\* last, proc.Shutdown, runs first.
MainDeferShutdown ==
    /\ engine.pc = "returning"
    /\ engine' = [engine EXCEPT !.pc = "closing", !.stops = @ + 1,
                                !.by = @ \cup {"main"}]
    /\ MainUnchanged

\* Line 36: the deferred cacheClient.Close runs.
MainDeferClose ==
    /\ engine.pc = "closing"
    /\ engine' = [engine EXCEPT !.pc = "exiting", !.closes = @ + 1]
    /\ MainUnchanged

\* Line 92: main has returned and the process ends, with every goroutine.
MainExit ==
    /\ engine.pc = "exiting"
    /\ engine' = [engine EXCEPT !.pc = "exited", !.exit = 0]
    /\ MainUnchanged

NextMain ==
    \/ MainNewCache
    \/ MainNewProcessor
    \/ MainNotify
    \/ MainListen
    \/ \E i \in 1..MainReqs : Accept(i)
    \/ \E i \in 1..MainReqs : HandlerTransform(i)
    \/ \E i \in 1..MainReqs : Finish(i)
    \/ \E i \in 1..MainReqs : DetachedSet(i)
    \/ ServeError
    \/ Signal
    \/ ShutdownDone
    \/ MainDeferShutdown
    \/ MainDeferClose
    \/ MainExit

SpecMain == InitMain /\ [][NextMain]_vars

\* C18: the engine is started once, before any request is accepted, and
\* only by main; it is shut down once, only by main and only as the
\* process ends; and however the process ends, an engine that was started
\* has been shut down.
C18_EngineLifecycle ==
    /\ engine.starts <= 1 /\ engine.stops <= 1
    /\ engine.by \subseteq {"main"}
    /\ (\E i \in 1..MainReqs : engine.rq[i] # "none") => engine.starts = 1
    /\ engine.stops = 1 => engine.pc \in {"closing", "exiting", "exited"}
    /\ (engine.pc = "exited" /\ engine.starts = 1) => engine.stops = 1

\* C26: once the engine has been shut down or the cache client closed, no
\* request is still to return from its transform and no spawned Set is
\* still to run; and no transform or Set has run on an engine shut down
\* or a cache client closed.
C26_ShutdownCutsNoWork ==
    /\ (engine.stops > 0 \/ engine.closes > 0) =>
          \A i \in 1..MainReqs :
              engine.rq[i] # "transform" /\ engine.set[i] # "pending"
    /\ engine.after = {}

----------------------------------------------------------------------------
(* SpecSvg: Handler.isSVG applied to one payload.                          *)

MaxTail == 3   \* bytes that follow the marker in a payload

Fill(n) == [i \in 1..n |-> "-"]

\* Markers in the cases a payload may carry them, and byte strings that
\* are not markers.
SvgMarkers ==
    {M_svg, <<"<","S","V","G">>, <<"<","s","V","g">>,
     M_doctype,
     <<"<","!","D","O","C","T","Y","P","E"," ","s","v","g">>,
     M_xml, M_svgname, <<"<","s","v">>,
     M_xml \o Fill(2) \o M_svgname,
     <<"<","?","X","M","L">> \o Fill(1) \o <<"S","V","G">>,
     M_svgname \o Fill(2) \o M_xml,
     M_xml \o M_svg,
     << >>}

\* Where a marker starts: at the head of the payload, ending on byte 500,
\* straddling byte 500, and past it.
SvgOffsets(m) ==
    {0, 1, SvgCheckLength - Len(m), SvgCheckLength - Len(m) + 1,
     SvgCheckLength, SvgCheckLength + 1}

SvgPayloads ==
    UNION {{Fill(n) \o m \o Fill(k) : n \in SvgOffsets(m), k \in 0..MaxTail} :
              m \in SvgMarkers}
    \cup {M_xml \o Fill(SvgCheckLength - 8) \o M_svgname \o Fill(k) :
              k \in 0..MaxTail}
    \cup {M_xml \o Fill(SvgCheckLength - 7) \o M_svgname \o Fill(k) :
              k \in 0..MaxTail}
    \cup {M_xml \o Fill(SvgCheckLength) \o M_svg \o Fill(k) :
              k \in 0..MaxTail}

InitSvg ==
    /\ PipelineIdle
    /\ auth = [phase |-> "off"] /\ keyt = [phase |-> "off"]
    /\ lim = << >> /\ proc = [phase |-> "off"]
    /\ engine = [phase |-> "off"]
    /\ \E data \in SvgPayloads :
          sniff = [phase |-> "in", data |-> data, res |-> FALSE]

\* One call of h.isSVG(data).
SniffCall ==
    /\ sniff.phase = "in"
    /\ sniff' = [sniff EXCEPT !.phase = "out", !.res = isSVG(sniff.data)]
    /\ UNCHANGED <<reqs, cache, tasks, buckets, now, auth, keyt, lim, proc,
                   engine>>

NextSvg == SniffCall

SpecSvg == InitSvg /\ [][NextSvg]_vars

\* The marker m, in any case of its letters, lies wholly within the first
\* limit bytes of data.
OccursWithin(data, m, limit) ==
    \E i \in 1..Len(data) :
        /\ i + Len(m) - 1 <= Min(limit, Len(data))
        /\ \A j \in 1..Len(m) : ToLowerByte(data[i + j - 1]) = m[j]

HasTag(data)      == OccursWithin(data, M_svg, SvgCheckLength)
HasDoctype(data)  == OccursWithin(data, M_doctype, SvgCheckLength)
HasPrologue(data) == OccursWithin(data, M_xml, SvgCheckLength)
HasName(data)     == OccursWithin(data, M_svgname, SvgCheckLength)

\* C20 as stated: isSVG returns true exactly when the lower-cased first
\* 500 bytes (the whole payload if shorter) contain an opening vector tag,
\* a vector doctype declaration, or an XML prologue together with a vector
\* tag; a marker past byte 500 never classifies.
C20_VectorPredicate ==
    sniff.phase = "out" =>
        sniff.res = (\/ HasTag(sniff.data)
                     \/ HasDoctype(sniff.data)
                     \/ (HasPrologue(sniff.data) /\ HasTag(sniff.data)))

\* C20 amended: isSVG returns false for a payload shorter than 5 bytes;
\* otherwise it returns true exactly when the lower-cased first 500 bytes
\* (the whole payload if shorter) contain "<svg", "<!doctype svg", or
\* "<?xml" together with the letters "svg" anywhere in the same prefix; a
\* marker that does not lie wholly within the first 500 bytes never
\* classifies.
C20_VectorPredicateMinLen ==
    sniff.phase = "out" =>
        sniff.res = (/\ Len(sniff.data) >= MinSvgLen
                     /\ \/ HasTag(sniff.data)
                        \/ HasDoctype(sniff.data)
                        \/ (HasPrologue(sniff.data) /\ HasName(sniff.data)))

\* A payload longer than 500 bytes whose only marker lies past byte 500
\* has been sniffed and was not classified as vector.
C20_Witness ==
    /\ sniff.phase = "out"
    /\ Len(sniff.data) > SvgCheckLength
    /\ Contains(ToLower(sniff.data), M_svg)
    /\ ~sniff.res

----------------------------------------------------------------------------
(* SpecLimitConc: concurrent RateLimiter.Check calls.  Each goroutine      *)
(* finds or creates the bucket of its client key, takes the bucket's lock, *)
(* reads the bucket and the clock, writes the refilled and charged bucket  *)
(* back and releases the lock.                                             *)

ConcThreads == 3   \* goroutines calling Check in one behaviour
ConcTime == 2      \* clock ticks in one behaviour

ConcClients == {"c1", "c2"}

\* The client key of goroutine g: two of three goroutines share "c1".
ThreadClient(g) == IF g % 3 = 0 THEN "c2" ELSE "c1"

\* A limiter whose buckets have no lock.
LockAlwaysFree(holder) == TRUE

\* The bucket's lock can be taken: no goroutine holds it.
LockFree(holder) == holder = 0

InitConc ==
    /\ reqs = << >> /\ cache = << >> /\ tasks = {}
    /\ buckets = [c \in ConcClients |-> NoBucket]
    /\ now = 0
    /\ auth = [phase |-> "off"] /\ keyt = [phase |-> "off"]
    /\ proc = [phase |-> "off"] /\ sniff = [phase |-> "off"]
    /\ engine = [phase |-> "off"]
    /\ lim \in {[capacity |-> n,
                  log |-> << >>,
                  lock |-> [c \in ConcClients |-> 0],
                  th |-> [g \in 1..ConcThreads |->
                            [pc |-> "idle", seen |-> NoBucket, t |-> 0]]] :
                 n \in 1..LimCapacity}

ConcUnchanged ==
    UNCHANGED <<reqs, cache, tasks, now, auth, keyt, proc, sniff, engine>>

\* Goroutine g enters Check: the bucket of its key is looked up in the
\* table and created full if the key has none.
ConcEnter(g) ==
    /\ lim.th[g].pc = "idle"
    /\ buckets' = IF buckets[ThreadClient(g)].made THEN buckets
                  ELSE [buckets EXCEPT ![ThreadClient(g)] =
                          [made |-> TRUE, tokens |-> lim.capacity,
                           last |-> now]]
    /\ lim' = [lim EXCEPT !.th[g].pc = "lock"]
    /\ ConcUnchanged

\* Goroutine g takes the lock of its bucket.
ConcLock(g) ==
    /\ lim.th[g].pc = "lock"
    /\ LockFree(lim.lock[ThreadClient(g)])
    /\ lim' = [lim EXCEPT !.th[g].pc = "read", !.lock[ThreadClient(g)] = g]
    /\ UNCHANGED buckets
    /\ ConcUnchanged

\* Goroutine g reads the bucket and the clock.
ConcRead(g) ==
    /\ lim.th[g].pc = "read"
    /\ lim' = [lim EXCEPT !.th[g].pc = "write",
                          !.th[g].seen = buckets[ThreadClient(g)],
                          !.th[g].t = now]
    /\ UNCHANGED buckets
    /\ ConcUnchanged

\* Goroutine g writes the refilled and charged bucket, releases the lock
\* and returns its answer.
ConcWrite(g) ==
    /\ lim.th[g].pc = "write"
    /\ LET c == ThreadClient(g)
           r == Check(lim.capacity, [buckets EXCEPT ![c] = lim.th[g].seen],
                      c, lim.th[g].t)
       IN  /\ buckets' = r.buckets
           /\ lim' = [lim EXCEPT
                 !.th[g].pc = "done",
                 !.lock[c] = 0,
                 !.log = Append(@, [client |-> c, by |-> g,
                                    at |-> lim.th[g].t,
                                    allowed |-> r.allowed])]
    /\ ConcUnchanged

\* One refill tick passes.
ConcTick ==
    /\ now < ConcTime
    /\ now' = now + 1
    /\ UNCHANGED <<reqs, cache, tasks, buckets, auth, keyt, others>>

NextConc ==
    \/ \E g \in 1..ConcThreads : ConcEnter(g)
    \/ \E g \in 1..ConcThreads : ConcLock(g)
    \/ \E g \in 1..ConcThreads : ConcRead(g)
    \/ \E g \in 1..ConcThreads : ConcWrite(g)
    \/ ConcTick

SpecLimitConc == InitConc /\ [][NextConc]_vars

\* The answers given to client c so far, in the order they were given.
AnswersTo(c) == SelectSeq(lim.log, LAMBDA e : e.client = c)

\* The bucket table after the first n of the checks es, made one after
\* the other with no other client.
RECURSIVE AloneTable(_, _)
AloneTable(es, n) ==
    IF n = 0 THEN [c \in ConcClients |-> NoBucket]
    ELSE Check(lim.capacity, AloneTable(es, n - 1), es[n].client,
               es[n].at).buckets

\* The requests of client c admitted from tick t1 to tick t2.
AdmittedBetween(c, t1, t2) ==
    {i \in 1..Len(lim.log) :
        /\ lim.log[i].client = c /\ lim.log[i].allowed
        /\ t1 <= lim.log[i].at /\ lim.log[i].at <= t2}

\* C21: under every interleaving of concurrent Check calls a bucket holds
\* 0..capacity tokens; the requests of one client admitted in any stretch
\* of time are no more than the tokens a full bucket and the refills of
\* that stretch provide; the answers to a client and its bucket are what
\* its checks alone would have given, whatever the other client does; and
\* a key has a bucket only once one of its requests has entered Check.
C21_ConcurrentChecks ==
    \A c \in ConcClients :
        /\ buckets[c].made =>
              (buckets[c].tokens >= 0 /\ buckets[c].tokens <= lim.capacity)
        /\ \A t1 \in 0..ConcTime, t2 \in 0..ConcTime :
              t1 <= t2 =>
                Cardinality(AdmittedBetween(c, t1, t2))
                    <= lim.capacity + (t2 - t1)
        /\ LET es == AnswersTo(c)
           IN  /\ \A i \in 1..Len(es) :
                     es[i].allowed =
                       Check(lim.capacity, AloneTable(es, i - 1), c,
                             es[i].at).allowed
               /\ (Len(es) > 0 /\ \A g \in 1..ConcThreads :
                                     ThreadClient(g) = c =>
                                         lim.th[g].pc \in {"idle", "done"})
                     => buckets[c] = AloneTable(es, Len(es))[c]
        /\ buckets[c].made <=>
              \E g \in 1..ConcThreads :
                  ThreadClient(g) = c /\ lim.th[g].pc # "idle"

\* C21 witness: two goroutines of one client raced for the last token at
\* the same tick, one was admitted and one denied, while a goroutine of
\* the other client was inside its own Check.
C21_Witness ==
    \E i, j \in 1..Len(lim.log) :
        /\ lim.log[i].client = lim.log[j].client
        /\ lim.log[i].at = lim.log[j].at
        /\ lim.log[i].allowed /\ ~lim.log[j].allowed
        /\ \E g \in 1..ConcThreads :
              /\ ThreadClient(g) # lim.log[i].client
              /\ lim.th[g].pc \in {"read", "write"}

----------------------------------------------------------------------------
(* The host authorized and the host fetched (Spec) *)

\* C22: for every request whose outbound GET was sent, the host the GET
\* went to is the host Auth evaluated against the allow-list.
C22_AuthorizedHostFetched ==
    \A r \in Reqs :
        reqs[r].fetches >= 1 =>
            reqs[r].getHost = AuthParsedURL(reqs[r].q.url).host

----------------------------------------------------------------------------
(* The Content-Type of a HIT and of the MISS that wrote the entry *)

\* C23: a HIT response carries the Content-Type of the MISS response of
\* the request whose Set wrote the entry it is served from.
C23_HitMissContentType ==
    \A r \in Reqs :
        LET rq == reqs[r]
        IN  (rq.pc = "done" /\ rq.xcache = "HIT") =>
                rq.ctype = reqs[rq.got.writer].ctype

----------------------------------------------------------------------------
(* The declared type and the encoder used (SpecProc) *)

\* The media type of what an export call of the engine produces.
TypeOfExport(method) ==
    CASE method = "ExportWebp" -> "image/webp"
      [] method = "ExportAvif" -> "image/avif"
      [] method = "ExportPng"  -> "image/png"
      [] method = "ExportJpeg" -> "image/jpeg"

\* C24: whatever the f parameter, the Content-Type of a transformed
\* raster response names the encoding of the export call Transform made.
C24_DeclaredTypeIsEncoding ==
    (proc.phase = "out" /\ ~proc.run.err) =>
        /\ proc.h.req.status = StatusOK
        /\ proc.h.req.ctype =
              TypeOfExport(proc.run.ops[Len(proc.run.ops)].op)

----------------------------------------------------------------------------
(* config.Load: the allow-list read from ALLOWED_DOMAINS *)

\* strings.Split(s, sep) for a separator of one byte: the pieces of s
\* between the separators; one empty piece when s is empty.
RECURSIVE Split(_, _)
Split(s, sep) ==
    IF \A i \in 1..Len(s) : s[i] # sep
    THEN <<s>>
    ELSE LET i == CHOOSE k \in 1..Len(s) :
                    s[k] = sep /\ \A j \in 1..(k - 1) : s[j] # sep
         IN  <<SubSeq(s, 1, i - 1)>> \o Split(SubSeq(s, i + 1, Len(s)), sep)

\* getEnv: the value of the variable, or the default when it is unset or
\* empty (os.Getenv gives "" for both).
getEnv(value, defaultValue) == IF value # << >> THEN value ELSE defaultValue

\* Load: AllowedDomains
LoadAllowedDomains(env) == Split(getEnv(env, << >>), ",")

\* The allow-list when ALLOWED_DOMAINS is unset.
DefaultAllowedDomains == LoadAllowedDomains(<< >>)

\* The host ends with the entry, byte by byte.
EndsWith(host, entry) ==
    /\ Len(entry) <= Len(host)
    /\ \A j \in 1..Len(entry) : host[Len(host) - Len(entry) + j] = entry[j]

\* The entries of the list that are not the empty string.
NonEmptyEntries(allowedDomains) ==
    SelectSeq(allowedDomains, LAMBDA e : e # E_empty)

\* C25: an empty-string entry of the allow-list admits no host: a list
\* answers as it does with its empty entries taken out, and a list of
\* empty entries only admits nothing; with ALLOWED_DOMAINS unset the list
\* is the single entry "" and every request whose url parses is answered
\* 403; a host is admitted only through an entry "*" or a non-empty entry
\* it equals or ends with.
C25_EmptyEntriesAdmitNothing ==
    auth.phase = "out" =>
        LET parsed == AuthParsedURL(auth.url)
        IN  /\ auth.status =
                  Auth(NonEmptyEntries(auth.allowedDomains), auth.url)
            /\ NonEmptyEntries(auth.allowedDomains) = << >>
                  => auth.status # 0
            /\ DefaultAllowedDomains = <<E_empty>>
            /\ (auth.allowedDomains = DefaultAllowedDomains
                   /\ auth.url # "" /\ ~parsed.err)
                  => auth.status = StatusForbidden
            /\ auth.status = 0 =>
                  \E i \in 1..Len(auth.allowedDomains) :
                      LET entry == auth.allowedDomains[i]
                      IN  \/ entry = E_star
                          \/ /\ entry # E_empty
                             /\ EndsWith(parsed.host, entry)

\* C25 witness: with the default allow-list, the single entry "", a
\* request for http://example.com/a.png has been answered 403.
C25_Witness ==
    /\ auth.phase = "out"
    /\ auth.allowedDomains = <<E_empty>>
    /\ auth.url = U_ok
    /\ auth.status = StatusForbidden

====
